---- MODULE Spec2Model ----
(***************************************************************************)
(* Connection-lifecycle protocol of the p2p library: one Sender            *)
(* (src/src/sender.js) and one Receiver (src/src/receiver.js) driven by    *)
(* signaling messages, engine (RTCPeerConnection) callbacks and timers.    *)
(*                                                                         *)
(* An async handler that reaches an `await` is a task: a record holding    *)
(* its captured locals and the place it is suspended at.  Every engine     *)
(* promise may resolve or reject; a pending promise is a task not yet      *)
(* resumed.  The engine reports ICE states only for a handle that is not   *)
(* closed and whose remote description is set.                             *)
(***************************************************************************)
EXTENDS Integers, Sequences, FiniteSets

\* ---- bounds of the model
MaxConns == 2   \* Connections one instance creates in a run
MaxTasks == 2   \* handlers of one instance suspended at the same time
MaxCands == 2   \* candidate messages one peer sends in a run
MaxStarts == 1  \* start() calls of one instance in a run
MaxAnswers == 1 \* answer (offer) messages delivered for one Connection
MaxCands2 == 1  \* candidate messages delivered in all, two-peer specification

\* ---- program constants
ConnectionTimeout == 30
PingAttempts == 2

\* ---- identities: the Sender instance is a1, the Receiver instance is b1;
\* a2, b2 are other instances of their room, a3, b3 instances of another room
SenderIds == {"a1", "a2", "a3"}
ReceiverIds == {"b1", "b2", "b3"}
\* the keys a registry or candidate-buffer map may get: any id of a message
Ids == SenderIds \cup ReceiverIds
\* a field a message lacks
None == "none"
\* this.room of an instance
RoomOf(id) == IF id \in {"a3", "b3"} THEN "y" ELSE "x"
\* the peers whose messages the driver delivers in the one-peer specifications
SPeers == {"b1"}
RPeers == {"a1"}
SID == "a1"
RID == "b1"
All == "*"

VARIABLES
  net,               \* driver: published messages not yet delivered
  sActive,           \* Sender: !!this._handler
  sVerify,           \* Sender: config.verify is set
  sStarts,           \* Sender: start() calls so far
  sConnections,      \* Sender: this.connections, peer id -> Connection (0: none)
  sCandidateQueues,  \* Sender: this.candidateQueues, peer id -> array (<<>>: none)
  sConn,             \* Sender: every Connection object created, in creation order
  sTasks,            \* Sender: suspended handlers
  sErrors,           \* Sender: 'error' notifications dispatched, per peer id
  sArrived,          \* Sender: candidate messages handled, per peer id
  rActive,           \* Receiver: !!this._handler
  rStarts,           \* Receiver: start() calls so far
  rConnections,      \* Receiver: this.connections
  rCandidateQueues,  \* Receiver: this.candidateQueues
  rConn,             \* Receiver: every Connection object created
  rTasks,            \* Receiver: suspended handlers
  rErrors,           \* Receiver: 'error' notifications dispatched, per peer id
  rArrived,          \* Receiver: candidate messages handled, per peer id
  rPing,             \* Receiver: this._ping
  rTimer,            \* Receiver: this._timer is set
  qActive,           \* Sender with send(): this._handler is set
  qState,            \* Sender with send(): this.state
  qConnections,      \* Sender with send(): this.connections, per peer id
  qSends,            \* Sender with send(): send() calls made
  qEmit,             \* Sender with send(): messages the last sync() published
  iRole,             \* instance under start()/stop(): its class, NoRole before new
  iActive,           \* instance: this._handler is set
  iId,               \* instance: this.id
  iRoom,             \* instance: this.room
  iSubs,             \* instance: topics this._handler is subscribed to
  iRuns,             \* instance: start() calls that took effect
  iOut,              \* instance: messages the last step published
  dLost              \* driver: type of the message it lost, None before

sVars == <<sActive, sVerify, sStarts, sConnections, sCandidateQueues, sConn,
           sTasks, sErrors, sArrived>>
rVars == <<rActive, rStarts, rConnections, rCandidateQueues, rConn, rTasks,
           rErrors, rArrived, rPing, rTimer>>
qVars == <<qActive, qState, qConnections, qSends, qEmit>>
iVars == <<iRole, iActive, iId, iRoom, iSubs, iRuns, iOut>>
vars == <<net, sVars, rVars, qVars, iVars, dLost>>

\* ---- messages and addresses
\* A message that instance id published to [role, room] (to = All) or to
\* [role, room, to], room being this.room of the publisher.
\* gk is not part of the message: it names the Connection that published it.
Msg(role, to, type, id, c, gk) ==
  [role |-> role, room |-> RoomOf(id), to |-> to, type |-> type, id |-> id,
   c |-> c, gk |-> gk]

\* an admission that never arms the connect timer
NoTimer == "none"

\* ---- Connection objects
\* timer: "none" (connectionTimeout <= 0), "armed", "cleared", "fired"
\* ev: the notifications dispatched for this Connection, in order
\* dmsg: 'dispose' messages published for it; sent: offers (answers) published
\* applied: <<candidate, remote description set at the call>> per
\*          addIceCandidate call on its engine handle, in order
\* pre: the candidate buffer of its peer id when it was created
\* got: answer messages handled for it
\* lc: local candidates its engine handle has reported ('icecandidate')
NewTimer == IF ConnectionTimeout > 0 THEN "armed" ELSE "none"

NewConn(id, queue) ==
  [id |-> id, timer |-> NewTimer, closed |-> FALSE, rs |-> FALSE,
   ice |-> "new", ev |-> <<>>, dmsg |-> 0, sent |-> 0, applied |-> <<>>,
   pre |-> queue, got |-> 0, lc |-> 0]

ClearTimeout(t) == IF t = "armed" THEN "cleared" ELSE t

\* ---- tasks (suspended handlers)
\* kind: the message type handled; pc: the awaited call; id: the peer id;
\* k: the captured Connection (conn); c: the candidate (candidate handler);
\* i: position of the drain loop's iterator; live: the array it iterates is
\* still the one in candidateQueues; arr: that array once it is not;
\* n: tells apart tasks that are otherwise equal.
Task(kind, pc, id, k, c) ==
  [kind |-> kind, pc |-> pc, id |-> id, k |-> k, c |-> c, i |-> 0,
   live |-> FALSE, arr |-> <<>>, n |-> 0]

Spawn(tasks, t) ==
  LET same == {u \in tasks : [u EXCEPT !.n = 0] = t}
      free == CHOOSE m \in 1..(Cardinality(same) + 1) :
                /\ \A u \in same : u.n # m
                /\ \A j \in 1..(m - 1) : \E u \in same : u.n = j
  IN  tasks \cup {[t EXCEPT !.n = free]}

\* candidateQueues.delete(id) / clear(): a drain loop still iterating the
\* deleted array keeps it
Detach(tasks, id, queue) ==
  {IF t.pc = "drain" /\ t.live /\ t.id = id
     THEN [t EXCEPT !.live = FALSE, !.arr = queue] ELSE t : t \in tasks}

DrainArray(t, queues) == IF t.live THEN queues[t.id] ELSE t.arr

Applied(conn, c) == [conn EXCEPT !.applied = Append(@, <<c, conn.rs>>)]

DisposeEv(error) == <<"dispose", error>>
ConnectEv == <<"connect", "none">>

\* ---- the statements of conn.dispose(error), one by one
\* What one call has done so far: timer and ev as in the Connection, reg the
\* registry entry of its peer id, chans / peer: close() was called on the
\* channels / on the engine handle, dmsg as in the Connection.
\* Called by the timer's callback, the timer has fired.
DisposeStart(conn, reg, error) ==
  [timer |-> IF error = "timeout" THEN "fired" ELSE conn.timer,
   reg |-> reg, chans |-> FALSE, peer |-> FALSE,
   dmsg |-> conn.dmsg, ev |-> conn.ev]

DisposeOp(st, op, error) ==
  CASE op = "clearTimeout" -> [st EXCEPT !.timer = ClearTimeout(@)]
    [] op = "delete" -> [st EXCEPT !.reg = 0]
    [] op = "closeChannels" -> [st EXCEPT !.chans = TRUE]
    [] op = "closePeer" -> [st EXCEPT !.peer = TRUE]
    [] op = "emit" -> [st EXCEPT !.dmsg = @ + 1]
    [] op = "dispatch" -> [st EXCEPT !.ev = Append(@, DisposeEv(error))]

\* the states after each statement, in order
RECURSIVE DisposeRun(_, _, _)
DisposeRun(st, ops, error) ==
  IF ops = <<>> THEN <<>>
  ELSE LET next == DisposeOp(st, Head(ops), error) IN
       <<next>> \o DisposeRun(next, Tail(ops), error)

\* a dispose that notifies before anything else
SDisposeOpsNotifyFirst ==
  <<"dispatch", "clearTimeout", "delete", "closeChannels", "closePeer", "emit">>

\* conn.dispose of the Sender
SDisposeOps ==
  <<"clearTimeout", "delete", "closeChannels", "closePeer", "emit", "dispatch">>

\* conn.dispose of the Receiver
RDisposeOps ==
  <<"clearTimeout", "delete", "closeChannels", "closePeer", "dispatch">>

\* ---------------------------------------------------------------- Sender

\* conn.dispose(error) of the Sender
SDisposed(conn, error) ==
  [conn EXCEPT !.timer = ClearTimeout(@), !.closed = TRUE, !.dmsg = @ + 1,
               !.ev = Append(@, DisposeEv(error))]

SDisposeMsg(k, id) == Msg("receiver", id, "dispose", SID, 0, k)

\* The state the Sender's handlers change, as one record
SState == [conns |-> sConnections, C |-> sConn, errors |-> sErrors, net |-> net]

\* a dispose that empties the registry
SDisposeAll(st, k, error) ==
  [st EXCEPT !.conns = [id \in Ids |-> 0],
             !.C[k] = SDisposed(@, error),
             !.net = @ \cup {SDisposeMsg(k, st.C[k].id)}]

SDispose(st, k, error) ==
  [st EXCEPT !.conns[st.C[k].id] = 0,
             !.C[k] = SDisposed(@, error),
             !.net = @ \cup {SDisposeMsg(k, st.C[k].id)}]

\* a catch that reports the error and leaves the Connection alone
SCatchErrorOnly(st, id) == [st EXCEPT !.errors[id] = @ + 1]

\* catch (error) of the invoke handler
SCatch(st, id) ==
  IF st.conns[id] # 0 THEN SDispose(st, st.conns[id], "neg")
  ELSE [st EXCEPT !.errors[id] = @ + 1]

SSet(st) ==
  /\ sConnections' = st.conns
  /\ sConn' = st.C
  /\ sErrors' = st.errors
  /\ net' = st.net

\* start(): subscribe and announce
SStart ==
  /\ ~sActive
  /\ sStarts < MaxStarts
  /\ sActive' = TRUE
  /\ sStarts' = sStarts + 1
  /\ net' = net \cup {Msg("receiver", All, "invoke", SID, 0, 0)}
  /\ UNCHANGED <<sVerify, sConnections, sCandidateQueues, sConn, sTasks,
                 sErrors, sArrived, rVars, qVars, iVars, dLost>>

\* an admission that takes up an earlier Connection object of the peer
SAdmitReuses(id, tasks, netIn) ==
  LET old == {k \in DOMAIN sConn : sConn[k].id = id} IN
  IF old = {}
    THEN /\ Len(sConn) < MaxConns
         /\ sConn' = Append(sConn, NewConn(id, sCandidateQueues[id]))
         /\ sConnections' = [sConnections EXCEPT ![id] = Len(sConn) + 1]
         /\ sTasks' = Spawn(tasks, Task("invoke", "createOffer", id, Len(sConn) + 1, 0))
         /\ net' = netIn
         /\ UNCHANGED <<sActive, sVerify, sStarts, sCandidateQueues, sErrors, sArrived>>
    ELSE LET k == CHOOSE k \in old : TRUE IN
         /\ sConnections' = [sConnections EXCEPT ![id] = k]
         /\ sTasks' = Spawn(tasks, Task("invoke", "createOffer", id, k, 0))
         /\ net' = netIn
         /\ UNCHANGED <<sActive, sVerify, sStarts, sCandidateQueues, sConn,
                        sErrors, sArrived>>

\* invoke handler from `const conn = {...}` to the await of createOffer
SAdmit(id, tasks, netIn) ==
  /\ Len(sConn) < MaxConns
  /\ sConn' = Append(sConn, NewConn(id, sCandidateQueues[id]))
  /\ sConnections' = [sConnections EXCEPT ![id] = Len(sConn) + 1]
  /\ sTasks' = Spawn(tasks, Task("invoke", "createOffer", id, Len(sConn) + 1, 0))
  /\ net' = netIn
  /\ UNCHANGED <<sActive, sVerify, sStarts, sCandidateQueues, sErrors, sArrived>>

SNoop(netIn) == net' = netIn /\ UNCHANGED <<sVars, qVars, iVars, dLost>>

\* type === 'invoke'
SInvoke(id, netIn) ==
  IF sConnections[id] # 0 THEN SNoop(netIn)
  ELSE IF sVerify
    THEN /\ Cardinality(sTasks) < MaxTasks
         /\ sTasks' = Spawn(sTasks, Task("invoke", "verify", id, 0, 0))
         /\ net' = netIn
         /\ UNCHANGED <<sActive, sVerify, sStarts, sConnections,
                        sCandidateQueues, sConn, sErrors, sArrived>>
    ELSE /\ Cardinality(sTasks) < MaxTasks
         /\ SAdmit(id, sTasks, netIn)

\* type === 'answer'
\* an answer handler that ignores the message
SAnswerIgnored(id, netIn) == SNoop(netIn)

SAnswer(id, netIn) ==
  IF sConnections[id] = 0 THEN SNoop(netIn)
  ELSE /\ Cardinality(sTasks) < MaxTasks
       /\ sConn[sConnections[id]].got < MaxAnswers
       /\ sConn' = [sConn EXCEPT ![sConnections[id]].got = @ + 1]
       /\ sTasks' = Spawn(sTasks, Task("answer", "srd", id, sConnections[id], 0))
       /\ net' = netIn
       /\ UNCHANGED <<sActive, sVerify, sStarts, sConnections,
                      sCandidateQueues, sErrors, sArrived>>

\* type === 'candidate'
SCandidate(id, c, netIn) ==
  /\ sArrived' = [sArrived EXCEPT ![id] = @ + 1]
  /\ net' = netIn
  /\ IF sConnections[id] = 0
       THEN /\ sCandidateQueues' = [sCandidateQueues EXCEPT ![id] = Append(@, c)]
            /\ UNCHANGED <<sActive, sVerify, sStarts, sConnections, sConn,
                           sTasks, sErrors>>
       ELSE /\ Cardinality(sTasks) < MaxTasks
            /\ sConn' = [sConn EXCEPT ![sConnections[id]] = Applied(@, c)]
            /\ sTasks' = Spawn(sTasks,
                 Task("candidate", "addIce", id, sConnections[id], c))
            /\ UNCHANGED <<sActive, sVerify, sStarts, sConnections,
                           sCandidateQueues, sErrors>>

\* a guard without the comparison with the own id
SIgnoresNoSelf(m) == m.type = None \/ m.id = None

\* if (!type || !id || id === this.id) return;
SIgnores(m) == m.type = None \/ m.id = None \/ m.id = SID

\* this._handler(e)
SHandle(m, netIn) ==
  IF SIgnores(m) THEN SNoop(netIn)
  ELSE CASE m.type = "invoke" -> SInvoke(m.id, netIn)
         [] m.type = "answer" -> SAnswer(m.id, netIn)
         [] m.type = "candidate" -> SCandidate(m.id, m.c, netIn)
         [] OTHER -> SNoop(netIn)

\* a verify gate that admits whatever the callback returns
SVerifyDoneAdmits(t, isValid) ==
  /\ t \in sTasks /\ t.pc = "verify"
  /\ SAdmit(t.id, sTasks \ {t}, net)
  /\ UNCHANGED <<rVars, qVars, iVars, dLost>>

\* await this.verify(id, credentials) settles
SVerifyDone(t, isValid) ==
  /\ t \in sTasks /\ t.pc = "verify"
  /\ IF isValid THEN SAdmit(t.id, sTasks \ {t}, net)
     ELSE /\ sTasks' = sTasks \ {t}
          /\ UNCHANGED <<net, sActive, sVerify, sStarts, sConnections,
                         sCandidateQueues, sConn, sErrors, sArrived>>
  /\ UNCHANGED <<rVars, qVars, iVars, dLost>>

\* await conn.peer.createOffer(...) settles
SCreateOfferDone(t, ok) ==
  /\ t \in sTasks /\ t.pc = "createOffer"
  /\ IF ok
       THEN /\ sTasks' = (sTasks \ {t}) \cup {[t EXCEPT !.pc = "setLocal"]}
            /\ UNCHANGED <<net, sConnections, sConn, sErrors>>
       ELSE /\ sTasks' = sTasks \ {t}
            /\ SSet(SCatch(SState, t.id))
  /\ UNCHANGED <<sActive, sVerify, sStarts, sCandidateQueues, sArrived, rVars, qVars, iVars, dLost>>

\* await conn.peer.setLocalDescription(offer) settles; then the offer is sent
SSetLocalDone(t, ok) ==
  /\ t \in sTasks /\ t.pc = "setLocal" /\ t.kind = "invoke"
  /\ sTasks' = sTasks \ {t}
  /\ IF ok
       THEN /\ net' = net \cup {Msg("receiver", t.id, "offer", SID, 0, t.k)}
            /\ sConn' = [sConn EXCEPT ![t.k].sent = @ + 1]
            /\ UNCHANGED <<sConnections, sErrors>>
       ELSE SSet(SCatch(SState, t.id))
  /\ UNCHANGED <<sActive, sVerify, sStarts, sCandidateQueues, sArrived, rVars, qVars, iVars, dLost>>

\* await conn.peer.setRemoteDescription(answer) settles; the drain starts
SSrdDone(t, ok) ==
  /\ t \in sTasks /\ t.pc = "srd" /\ t.kind = "answer"
  /\ IF ~ok
       THEN /\ sTasks' = sTasks \ {t}
            /\ SSet(SDispose(SState, t.k, "neg"))
       ELSE /\ UNCHANGED <<net, sConnections, sErrors>>
            /\ IF sCandidateQueues[t.id] # <<>>
                 THEN /\ sConn' = [sConn EXCEPT ![t.k] =
                           Applied([@ EXCEPT !.rs = TRUE], sCandidateQueues[t.id][1])]
                      /\ sTasks' = (sTasks \ {t}) \cup
                           {[t EXCEPT !.pc = "drain", !.i = 1, !.live = TRUE]}
                 ELSE /\ sConn' = [sConn EXCEPT ![t.k].rs = TRUE]
                      /\ sTasks' = sTasks \ {t}
  /\ UNCHANGED <<sActive, sVerify, sStarts, sCandidateQueues, sArrived, rVars, qVars, iVars, dLost>>

\* await conn.peer.addIceCandidate(candidate) of the drain loop settles
SDrainStep(t, ok) ==
  /\ t \in sTasks /\ t.pc = "drain" /\ t.kind = "answer"
  /\ sErrors' = IF ok THEN sErrors ELSE [sErrors EXCEPT ![t.id] = @ + 1]
  /\ LET arr == DrainArray(t, sCandidateQueues) IN
     IF t.i < Len(arr)
       THEN /\ sConn' = [sConn EXCEPT ![t.k] = Applied(@, arr[t.i + 1])]
            /\ sTasks' = (sTasks \ {t}) \cup {[t EXCEPT !.i = @ + 1]}
            /\ UNCHANGED sCandidateQueues
       ELSE /\ sCandidateQueues' = [sCandidateQueues EXCEPT ![t.id] = <<>>]
            /\ sTasks' = Detach(sTasks \ {t}, t.id, sCandidateQueues[t.id])
            /\ UNCHANGED sConn
  /\ UNCHANGED <<net, sActive, sVerify, sStarts, sConnections, sArrived, rVars, qVars, iVars, dLost>>

\* a candidate handler whose catch disposes the Connection
SAddIceDoneFatal(t, ok) ==
  /\ t \in sTasks /\ t.pc = "addIce" /\ t.kind = "candidate"
  /\ sTasks' = sTasks \ {t}
  /\ IF ok THEN UNCHANGED <<net, sConnections, sConn, sErrors>>
     ELSE SSet(SDispose(SState, t.k, "neg"))
  /\ UNCHANGED <<sActive, sVerify, sStarts, sCandidateQueues, sArrived, rVars, qVars, iVars, dLost>>

\* await conn.peer.addIceCandidate(candidate) of the candidate handler settles
SAddIceDone(t, ok) ==
  /\ t \in sTasks /\ t.pc = "addIce" /\ t.kind = "candidate"
  /\ sTasks' = sTasks \ {t}
  /\ sErrors' = IF ok THEN sErrors ELSE [sErrors EXCEPT ![t.id] = @ + 1]
  /\ UNCHANGED <<net, sActive, sVerify, sStarts, sConnections,
                 sCandidateQueues, sConn, sArrived, rVars, qVars, iVars, dLost>>

\* 'iceconnectionstatechange' listener of a Connection
SIceState(k, state) ==
  /\ k \in DOMAIN sConn
  /\ ~sConn[k].closed /\ sConn[k].rs
  /\ CASE state = "connected" ->
            /\ sConn[k].ice = "new"
            /\ sConn' = [sConn EXCEPT ![k].timer = ClearTimeout(@),
                                      ![k].ice = "connected",
                                      ![k].ev = Append(@, ConnectEv)]
            /\ UNCHANGED <<net, sConnections, sErrors>>
       [] state = "disconnected" -> SSet(SDispose(SState, k, "none"))
       [] state = "failed" -> SSet(SDispose(SState, k, "ice"))
  /\ UNCHANGED <<sActive, sVerify, sStarts, sCandidateQueues, sTasks,
                 sArrived, rVars, qVars, iVars, dLost>>

\* the setTimeout callback of a Connection
STimeout(k) ==
  /\ k \in DOMAIN sConn
  /\ sConn[k].timer = "armed"
  /\ SSet(SDispose([SState EXCEPT !.C[k].timer = "fired"], k, "timeout"))
  /\ UNCHANGED <<sActive, sVerify, sStarts, sCandidateQueues, sTasks,
                 sArrived, rVars, qVars, iVars, dLost>>

\* 'icecandidate' listener of a Connection
SIceCandidate(k) ==
  /\ k \in DOMAIN sConn
  /\ ~sConn[k].closed /\ sConn[k].sent > 0 /\ sConn[k].lc < MaxCands
  /\ sConn' = [sConn EXCEPT ![k].lc = @ + 1]
  /\ net' = net \cup
       {Msg("receiver", sConn[k].id, "candidate", SID, sConn[k].lc + 1, k)}
  /\ UNCHANGED <<sActive, sVerify, sStarts, sConnections, sCandidateQueues,
                 sTasks, sErrors, sArrived, rVars, qVars, iVars, dLost>>

\* a stop() that leaves the candidate buffers
SStopKeepsBuffers ==
  /\ sActive
  /\ sActive' = FALSE
  /\ LET reg == {k \in DOMAIN sConn : sConnections[sConn[k].id] = k} IN
     /\ sConn' = [k \in DOMAIN sConn |->
                    IF k \in reg THEN SDisposed(sConn[k], "none") ELSE sConn[k]]
     /\ net' = net \cup {SDisposeMsg(k, sConn[k].id) : k \in reg}
  /\ sConnections' = [id \in Ids |-> 0]
  /\ UNCHANGED <<sVerify, sStarts, sCandidateQueues, sTasks, sErrors, sArrived,
                 rVars, qVars, iVars, dLost>>

\* stop()
SStop ==
  /\ sActive
  /\ sActive' = FALSE
  /\ LET reg == {k \in DOMAIN sConn : sConnections[sConn[k].id] = k} IN
     /\ sConn' = [k \in DOMAIN sConn |->
                    IF k \in reg THEN SDisposed(sConn[k], "none") ELSE sConn[k]]
     /\ net' = net \cup {SDisposeMsg(k, sConn[k].id) : k \in reg}
  /\ sConnections' = [id \in Ids |-> 0]
  /\ sCandidateQueues' = [id \in Ids |-> <<>>]
  /\ sTasks' = {IF t.pc = "drain" /\ t.live
                  THEN [t EXCEPT !.live = FALSE, !.arr = sCandidateQueues[t.id]]
                  ELSE t : t \in sTasks}
  /\ UNCHANGED <<sVerify, sStarts, sErrors, sArrived, rVars, qVars, iVars, dLost>>

\* A message a driver may deliver to the Sender from peer id
SInput(id) ==
  {Msg("sender", SID, type, id, 0, 0) : type \in {"invoke", "answer"}}
  \cup (IF sArrived[id] < MaxCands
          THEN {Msg("sender", SID, "candidate", id, sArrived[id] + 1, 0)}
          ELSE {})

\* The driver calls the subscribed handler with a message of any peer
SDeliver(id) ==
  /\ sActive
  /\ \E m \in SInput(id) : SHandle(m, net)
  /\ UNCHANGED <<rVars, qVars, iVars, dLost>>

\* -------------------------------------------------------------- Receiver

\* conn.dispose(error) of the Receiver
RDisposed(conn, error) ==
  [conn EXCEPT !.timer = ClearTimeout(@), !.closed = TRUE,
               !.ev = Append(@, DisposeEv(error))]

RState == [conns |-> rConnections, C |-> rConn, errors |-> rErrors]

RDispose(st, k, error) ==
  [st EXCEPT !.conns[st.C[k].id] = 0, !.C[k] = RDisposed(@, error)]

\* catch (error) of the offer handler
RCatch(st, id) ==
  IF st.conns[id] # 0 THEN RDispose(st, st.conns[id], "neg")
  ELSE [st EXCEPT !.errors[id] = @ + 1]

RSet(st) ==
  /\ rConnections' = st.conns
  /\ rConn' = st.C
  /\ rErrors' = st.errors

RInvokeMsg(to) == Msg("sender", to, "invoke", RID, 0, 0)

\* start(): subscribe, announce, start the ping timer
RStart ==
  /\ ~rActive
  /\ rStarts < MaxStarts
  /\ rActive' = TRUE
  /\ rStarts' = rStarts + 1
  /\ net' = net \cup {RInvokeMsg(All)}
  /\ rPing' = 0
  /\ rTimer' = TRUE
  /\ UNCHANGED <<rConnections, rCandidateQueues, rConn, rTasks, rErrors,
                 rArrived, sVars, qVars, iVars, dLost>>

RNoop(netIn) == net' = netIn /\ UNCHANGED <<rVars, qVars, iVars, dLost>>

\* an invoke handler that publishes nothing
RInvokeSilent(id, netIn) == RNoop(netIn)

\* type === 'invoke'
RInvoke(id, netIn) ==
  IF rConnections[id] # 0 THEN RNoop(netIn)
  ELSE /\ net' = netIn \cup {RInvokeMsg(id)}
       /\ UNCHANGED <<rVars, qVars, iVars, dLost>>

\* type === 'offer': from the registry check to the await of
\* setRemoteDescription
RAdmit(id, netIn) ==
  /\ Cardinality(rTasks) < MaxTasks
  /\ Len(rConn) < MaxConns
  /\ rConn' = Append(rConn, NewConn(id, rCandidateQueues[id]))
  /\ rConnections' = [rConnections EXCEPT ![id] = Len(rConn) + 1]
  /\ rTasks' = Spawn(rTasks, Task("offer", "srd", id, Len(rConn) + 1, 0))
  /\ net' = netIn
  /\ UNCHANGED <<rActive, rStarts, rCandidateQueues, rErrors, rArrived,
                 rPing, rTimer>>

\* an offer handler that admits without consulting the registry
ROfferUnchecked(id, netIn) == RAdmit(id, netIn)

ROffer(id, netIn) ==
  IF rConnections[id] # 0 THEN RNoop(netIn) ELSE RAdmit(id, netIn)

\* type === 'candidate'
RCandidate(id, c, netIn) ==
  /\ rArrived' = [rArrived EXCEPT ![id] = @ + 1]
  /\ net' = netIn
  /\ IF rConnections[id] = 0
       THEN /\ rCandidateQueues' = [rCandidateQueues EXCEPT ![id] = Append(@, c)]
            /\ UNCHANGED <<rActive, rStarts, rConnections, rConn, rTasks,
                           rErrors, rPing, rTimer>>
       ELSE /\ Cardinality(rTasks) < MaxTasks
            /\ rConn' = [rConn EXCEPT ![rConnections[id]] = Applied(@, c)]
            /\ rTasks' = Spawn(rTasks,
                 Task("candidate", "addIce", id, rConnections[id], c))
            /\ UNCHANGED <<rActive, rStarts, rConnections, rCandidateQueues,
                           rErrors, rPing, rTimer>>

\* a dispose handler that answers with a dispose message of its own
RDisposeMsgEcho(id, netIn) ==
  IF rConnections[id] = 0 THEN RNoop(netIn)
  ELSE /\ RSet(RDispose(RState, rConnections[id], "none"))
       /\ net' = netIn \cup {Msg("sender", id, "dispose", RID, 0, rConnections[id])}
       /\ UNCHANGED <<rActive, rStarts, rCandidateQueues, rTasks, rArrived,
                      rPing, rTimer>>

\* type === 'dispose'
RDisposeMsg(id, netIn) ==
  IF rConnections[id] = 0 THEN RNoop(netIn)
  ELSE /\ RSet(RDispose(RState, rConnections[id], "none"))
       /\ net' = netIn
       /\ UNCHANGED <<rActive, rStarts, rCandidateQueues, rTasks, rArrived,
                      rPing, rTimer>>

\* if (!type || !id || this.id === id) return;
RIgnores(m) == m.type = None \/ m.id = None \/ m.id = RID

\* this._handler(e)
RHandle(m, netIn) ==
  IF RIgnores(m) THEN RNoop(netIn)
  ELSE CASE m.type = "invoke" -> RInvoke(m.id, netIn)
         [] m.type = "offer" -> ROffer(m.id, netIn)
         [] m.type = "candidate" -> RCandidate(m.id, m.c, netIn)
         [] m.type = "dispose" -> RDisposeMsg(m.id, netIn)
         [] OTHER -> RNoop(netIn)

\* the offer handler goes on to `await conn.peer.createAnswer()`
RToCreateAnswer(t) == [t EXCEPT !.pc = "createAnswer", !.i = 0, !.live = FALSE,
                                !.arr = <<>>]

\* await conn.peer.setRemoteDescription(offer) settles; the drain starts
RSrdDone(t, ok) ==
  /\ t \in rTasks /\ t.pc = "srd" /\ t.kind = "offer"
  /\ IF ~ok
       THEN /\ rTasks' = rTasks \ {t}
            /\ RSet(RCatch(RState, t.id))
       ELSE /\ UNCHANGED <<rConnections, rErrors>>
            /\ IF rCandidateQueues[t.id] # <<>>
                 THEN /\ rConn' = [rConn EXCEPT ![t.k] =
                           Applied([@ EXCEPT !.rs = TRUE], rCandidateQueues[t.id][1])]
                      /\ rTasks' = (rTasks \ {t}) \cup
                           {[t EXCEPT !.pc = "drain", !.i = 1, !.live = TRUE]}
                 ELSE /\ rConn' = [rConn EXCEPT ![t.k].rs = TRUE]
                      /\ rTasks' = (rTasks \ {t}) \cup {RToCreateAnswer(t)}
  /\ UNCHANGED <<net, rActive, rStarts, rCandidateQueues, rArrived, rPing,
                 rTimer, sVars, qVars, iVars, dLost>>

\* await conn.peer.addIceCandidate(candidate) of the drain loop settles
RDrainStep(t, ok) ==
  /\ t \in rTasks /\ t.pc = "drain" /\ t.kind = "offer"
  /\ rErrors' = IF ok THEN rErrors ELSE [rErrors EXCEPT ![t.id] = @ + 1]
  /\ LET arr == DrainArray(t, rCandidateQueues) IN
     IF t.i < Len(arr)
       THEN /\ rConn' = [rConn EXCEPT ![t.k] = Applied(@, arr[t.i + 1])]
            /\ rTasks' = (rTasks \ {t}) \cup {[t EXCEPT !.i = @ + 1]}
            /\ UNCHANGED rCandidateQueues
       ELSE /\ rCandidateQueues' = [rCandidateQueues EXCEPT ![t.id] = <<>>]
            /\ rTasks' = Detach(rTasks \ {t}, t.id, rCandidateQueues[t.id])
                           \cup {RToCreateAnswer(t)}
            /\ UNCHANGED rConn
  /\ UNCHANGED <<net, rActive, rStarts, rConnections, rArrived, rPing, rTimer,
                 sVars, qVars, iVars, dLost>>

\* await conn.peer.createAnswer() settles
RCreateAnswerDone(t, ok) ==
  /\ t \in rTasks /\ t.pc = "createAnswer"
  /\ IF ok
       THEN /\ rTasks' = (rTasks \ {t}) \cup {[t EXCEPT !.pc = "setLocal"]}
            /\ UNCHANGED <<rConnections, rConn, rErrors>>
       ELSE /\ rTasks' = rTasks \ {t}
            /\ RSet(RCatch(RState, t.id))
  /\ UNCHANGED <<net, rActive, rStarts, rCandidateQueues, rArrived, rPing,
                 rTimer, sVars, qVars, iVars, dLost>>

\* await conn.peer.setLocalDescription(answer) settles; then the answer is sent
RSetLocalDone(t, ok) ==
  /\ t \in rTasks /\ t.pc = "setLocal" /\ t.kind = "offer"
  /\ rTasks' = rTasks \ {t}
  /\ IF ok
       THEN /\ net' = net \cup {Msg("sender", t.id, "answer", RID, 0, t.k)}
            /\ rConn' = [rConn EXCEPT ![t.k].sent = @ + 1]
            /\ UNCHANGED <<rConnections, rErrors>>
       ELSE /\ RSet(RCatch(RState, t.id))
            /\ UNCHANGED net
  /\ UNCHANGED <<rActive, rStarts, rCandidateQueues, rArrived, rPing, rTimer,
                 sVars, qVars, iVars, dLost>>

\* await conn.peer.addIceCandidate(candidate) of the candidate handler settles
RAddIceDone(t, ok) ==
  /\ t \in rTasks /\ t.pc = "addIce" /\ t.kind = "candidate"
  /\ rTasks' = rTasks \ {t}
  /\ rErrors' = IF ok THEN rErrors ELSE [rErrors EXCEPT ![t.id] = @ + 1]
  /\ UNCHANGED <<net, rActive, rStarts, rConnections, rCandidateQueues, rConn,
                 rArrived, rPing, rTimer, sVars, qVars, iVars, dLost>>

\* 'iceconnectionstatechange' listener of a Connection
RIceState(k, state) ==
  /\ k \in DOMAIN rConn
  /\ ~rConn[k].closed /\ rConn[k].rs
  /\ CASE state = "connected" ->
            /\ rConn[k].ice = "new"
            /\ rConn' = [rConn EXCEPT ![k].timer = ClearTimeout(@),
                                      ![k].ice = "connected",
                                      ![k].ev = Append(@, ConnectEv)]
            /\ UNCHANGED <<rConnections, rErrors>>
       [] state = "disconnected" -> RSet(RDispose(RState, k, "none"))
       [] state = "failed" -> RSet(RDispose(RState, k, "ice"))
  /\ UNCHANGED <<net, rActive, rStarts, rCandidateQueues, rTasks, rArrived,
                 rPing, rTimer, sVars, qVars, iVars, dLost>>

\* the setTimeout callback of a Connection
RTimeout(k) ==
  /\ k \in DOMAIN rConn
  /\ rConn[k].timer = "armed"
  /\ RSet(RDispose([RState EXCEPT !.C[k].timer = "fired"], k, "timeout"))
  /\ UNCHANGED <<net, rActive, rStarts, rCandidateQueues, rTasks, rArrived,
                 rPing, rTimer, sVars, qVars, iVars, dLost>>

\* 'icecandidate' listener of a Connection
RIceCandidate(k) ==
  /\ k \in DOMAIN rConn
  /\ ~rConn[k].closed /\ rConn[k].sent > 0 /\ rConn[k].lc < MaxCands
  /\ rConn' = [rConn EXCEPT ![k].lc = @ + 1]
  /\ net' = net \cup
       {Msg("sender", rConn[k].id, "candidate", RID, rConn[k].lc + 1, k)}
  /\ UNCHANGED <<rActive, rStarts, rConnections, rCandidateQueues, rTasks,
                 rErrors, rArrived, rPing, rTimer, sVars, qVars, iVars, dLost>>

\* a setInterval callback that publishes without counting this._ping down
RPingTickNoCountdown ==
  /\ rTimer
  /\ rPing' = (IF \E id \in Ids : rConnections[id] # 0 THEN PingAttempts ELSE rPing)
  /\ net' = (IF rPing' > 0 THEN net \cup {RInvokeMsg(All)} ELSE net)
  /\ UNCHANGED <<rActive, rStarts, rConnections, rCandidateQueues, rConn,
                 rTasks, rErrors, rArrived, rTimer, sVars, qVars, iVars, dLost>>

\* the setInterval callback (discovery ping)
RPingTick ==
  /\ rTimer
  /\ LET armed == IF \E id \in Ids : rConnections[id] # 0
                    THEN PingAttempts ELSE rPing IN
     IF armed > 0
       THEN /\ rPing' = armed - 1
            /\ net' = net \cup {RInvokeMsg(All)}
       ELSE /\ rPing' = armed
            /\ UNCHANGED net
  /\ UNCHANGED <<rActive, rStarts, rConnections, rCandidateQueues, rConn,
                 rTasks, rErrors, rArrived, rTimer, sVars, qVars, iVars, dLost>>

\* a stop() that leaves the interval timer running
RStopKeepsTimer ==
  /\ rActive
  /\ rActive' = FALSE
  /\ LET reg == {k \in DOMAIN rConn : rConnections[rConn[k].id] = k} IN
     rConn' = [k \in DOMAIN rConn |->
                 IF k \in reg THEN RDisposed(rConn[k], "none") ELSE rConn[k]]
  /\ rConnections' = [id \in Ids |-> 0]
  /\ rCandidateQueues' = [id \in Ids |-> <<>>]
  /\ rTasks' = {IF t.pc = "drain" /\ t.live
                  THEN [t EXCEPT !.live = FALSE, !.arr = rCandidateQueues[t.id]]
                  ELSE t : t \in rTasks}
  /\ UNCHANGED <<net, rStarts, rErrors, rArrived, rPing, rTimer, sVars, qVars, iVars, dLost>>

\* stop()
RStop ==
  /\ rActive
  /\ rActive' = FALSE
  /\ rTimer' = FALSE
  /\ LET reg == {k \in DOMAIN rConn : rConnections[rConn[k].id] = k} IN
     rConn' = [k \in DOMAIN rConn |->
                 IF k \in reg THEN RDisposed(rConn[k], "none") ELSE rConn[k]]
  /\ rConnections' = [id \in Ids |-> 0]
  /\ rCandidateQueues' = [id \in Ids |-> <<>>]
  /\ rTasks' = {IF t.pc = "drain" /\ t.live
                  THEN [t EXCEPT !.live = FALSE, !.arr = rCandidateQueues[t.id]]
                  ELSE t : t \in rTasks}
  /\ UNCHANGED <<net, rStarts, rErrors, rArrived, rPing, sVars, qVars, iVars, dLost>>

\* A message a driver may deliver to the Receiver from peer id
RInput(id) ==
  {Msg("receiver", RID, type, id, 0, 0) : type \in {"invoke", "offer", "dispose"}}
  \cup (IF rArrived[id] < MaxCands
          THEN {Msg("receiver", RID, "candidate", id, rArrived[id] + 1, 0)}
          ELSE {})

\* The driver calls the subscribed handler with a message of any peer
RDeliver(id) ==
  /\ rActive
  /\ \E m \in RInput(id) : RHandle(m, net)
  /\ UNCHANGED <<sVars, qVars, iVars, dLost>>

\* ------------------------------------------- Sender with send() and sync()
\* The Sender that keeps one data channel and one outbound queue per
\* Connection and a metadata object this.state.  Negotiation is as in the
\* Sender above; here a Connection is its registry entry, its channel and its
\* queue.  A payload is the number of the send() call that passed it.
QPeers == {"b1", "b2"}
QueueSize == 2
MaxSends == 3

\* metadata objects: the value of each key, Absent for a key the object lacks
MetaKeys == {"x", "y"}
Absent == 0
Meta(x, y) == [key \in MetaKeys |-> IF key = "x" THEN x ELSE y]
\* the objects passed to start() and sync(): {}, {x: 1, y: 1}, {x: 2}
Metas == {Meta(Absent, Absent), Meta(1, 1), Meta(2, Absent)}
\* this.state before the first start()
Undefined == [key \in MetaKeys |-> -1]

\* Object.assign(target, source)
Assign(target, source) ==
  [key \in MetaKeys |-> IF source[key] # Absent THEN source[key] ELSE target[key]]

\* channel: readyState of conn.channel ("none": no Connection object yet)
\* queue: conn.queue; out: the payloads passed to conn.channel.send, in order
\* flushed: how many of them the 'open' listener passed
\* pushed: conn.queue.push calls made
NoQConn ==
  [reg |-> FALSE, channel |-> "none", queue |-> <<>>, out |-> <<>>,
   flushed |-> 0, pushed |-> 0]

\* const conn = {..., queue: []}; connections.set(id, conn); createDataChannel
NewQConn == [NoQConn EXCEPT !.reg = TRUE, !.channel = "connecting"]

\* a queue that refuses the new entry when it is full
EnqueueDropsNewest(queue, data) ==
  IF Len(queue) >= QueueSize THEN queue ELSE Append(queue, data)

\* conn.queue.push(data); if (conn.queue.length > this.queueSize) conn.queue.shift()
Enqueue(queue, data) ==
  LET pushed == Append(queue, data) IN
  IF Len(pushed) > QueueSize THEN Tail(pushed) ELSE pushed

\* the inner send(conn, data)
SendTo(conn, data) ==
  IF conn.channel = "open"
    THEN [conn EXCEPT !.out = Append(@, data)]
    ELSE [conn EXCEPT !.queue = Enqueue(@, data), !.pushed = @ + 1]

\* an 'open' listener that sends the newest queued payload first
RECURSIVE Reverse(_)
Reverse(seq) == IF seq = <<>> THEN <<>> ELSE Append(Reverse(Tail(seq)), Head(seq))

FlushNewestFirst(conn) ==
  [conn EXCEPT !.out = @ \o Reverse(conn.queue), !.queue = <<>>,
               !.flushed = Len(conn.queue)]

\* the 'open' listener: while (conn.queue.length) channel.send(conn.queue.shift())
Flush(conn) ==
  [conn EXCEPT !.out = @ \o conn.queue, !.queue = <<>>,
               !.flushed = Len(conn.queue)]

\* conn.dispose(): connections.delete(id); conn.channel.close()
QDisposed(conn) == [conn EXCEPT !.reg = FALSE, !.channel = "closed"]

\* if (merge) Object.assign(this.state, state)
SyncState(state, merge) == IF merge THEN Assign(qState, state) ELSE qState

\* the ids of this.connections, in one order
QRegistered ==
  (IF qConnections["b1"].reg THEN <<"b1">> ELSE <<>>)
    \o (IF qConnections["b2"].reg THEN <<"b2">> ELSE <<>>)

\* start(options): this.state = state || {}
QStart(state) ==
  /\ ~qActive
  /\ qActive' = TRUE
  /\ qState' = state
  /\ qEmit' = <<>>
  /\ UNCHANGED <<qConnections, qSends, net, sVars, rVars, iVars, dLost>>

\* stop()
QStop ==
  /\ qActive
  /\ qActive' = FALSE
  /\ qConnections' = [id \in QPeers |->
                        IF qConnections[id].reg THEN QDisposed(qConnections[id])
                        ELSE qConnections[id]]
  /\ qEmit' = <<>>
  /\ UNCHANGED <<qState, qSends, net, sVars, rVars, iVars, dLost>>

\* an invoke of id is handled: a Connection is created and registered
QInvoke(id) ==
  /\ qActive /\ ~qConnections[id].reg
  /\ qConnections' = [qConnections EXCEPT ![id] = NewQConn]
  /\ qEmit' = <<>>
  /\ UNCHANGED <<qActive, qState, qSends, net, sVars, rVars, iVars, dLost>>

\* conn.dispose(error), by the timer, the ICE state or a failed negotiation
QDispose(id) ==
  /\ qConnections[id].reg
  /\ qConnections' = [qConnections EXCEPT ![id] = QDisposed(@)]
  /\ qEmit' = <<>>
  /\ UNCHANGED <<qActive, qState, qSends, net, sVars, rVars, iVars, dLost>>

\* the engine opens the channel: readyState is 'open' and 'open' is dispatched
QChannelOpen(id) ==
  /\ qConnections[id].channel = "connecting"
  /\ qConnections' = [qConnections EXCEPT ![id] = Flush([@ EXCEPT !.channel = "open"])]
  /\ qEmit' = <<>>
  /\ UNCHANGED <<qActive, qState, qSends, net, sVars, rVars, iVars, dLost>>

\* the peer closes the channel of a Connection that stays registered
QChannelClose(id) ==
  /\ qConnections[id].channel = "open"
  /\ qConnections' = [qConnections EXCEPT ![id].channel = "closed"]
  /\ qEmit' = <<>>
  /\ UNCHANGED <<qActive, qState, qSends, net, sVars, rVars, iVars, dLost>>

\* send(data, id): to the Connection of id, or to all with id omitted (All)
QSend(id) ==
  /\ qSends < MaxSends
  /\ qSends' = qSends + 1
  /\ qConnections' = [p \in QPeers |->
                        IF qConnections[p].reg /\ id \in {p, All}
                          THEN SendTo(qConnections[p], qSends + 1)
                          ELSE qConnections[p]]
  /\ qEmit' = <<>>
  /\ UNCHANGED <<qActive, qState, net, sVars, rVars, iVars, dLost>>

\* sync(state, merge)
QSync(state, merge) ==
  /\ qState # Undefined
  /\ qState' = SyncState(state, merge)
  /\ qEmit' = [i \in 1..Len(QRegistered) |->
                 [type |-> "sync", to |-> QRegistered[i], state |-> qState']]
  /\ UNCHANGED <<qActive, qConnections, qSends, net, sVars, rVars, iVars, dLost>>

QInit ==
  /\ qActive = FALSE
  /\ qState = Undefined
  /\ qConnections = [id \in QPeers |-> NoQConn]
  /\ qSends = 0
  /\ qEmit = <<>>

\* ---- start(), stop() and this.id of one instance (sender.js, receiver.js)
IPeers == {"p1", "p2"}
MaxRuns == 2
NoId == 0
NoStream == 0
StreamIds == {101}
NoRoom == "none"
NoRole == "none"

\* uuid(): the n-th call gives a value no earlier call gave
Uuid(n) == n

\* options of start(): room and, for a Sender, stream
IOptions == [room : {NoRoom, "x"}, stream : {NoStream} \cup StreamIds]

\* room || 'default'
IRoomOf(options) == IF options.room = NoRoom THEN "default" ELSE options.room

\* stream?.id || uuid() in a Sender, uuid() in a Receiver
IStartId(role, options, n) ==
  IF role = "sender" /\ options.stream # NoStream THEN options.stream ELSE Uuid(n)

\* the topic prefix an instance listens on, and the one it publishes to
IOwn(role) == IF role = "sender" THEN "sender" ELSE "receiver"
IOther(role) == IF role = "sender" THEN "receiver" ELSE "sender"

\* driver.emit([other, this.room, to], {type, id: this.id}); to is All for
\* the room-wide topic [other, this.room]
IMsg(type, to) == [topic |-> <<IOther(iRole), iRoom, to>>, type |-> type, id |-> iId]

\* what a handler, listener or timer of the role publishes
ITypes(role) ==
  IF role = "sender" THEN {"offer", "candidate", "dispose"}
  ELSE {"invoke", "answer", "candidate"}

\* new Sender(config) or new Receiver(config)
INew(role) ==
  /\ iRole = NoRole
  /\ iRole' = role
  /\ UNCHANGED <<iActive, iId, iRoom, iSubs, iRuns, iOut, net, sVars, rVars, qVars, dLost>>

\* start(options) without the test of this._handler
IStartAgain(options) ==
  /\ iRole # NoRole
  /\ iRuns < MaxRuns
  /\ iActive' = TRUE
  /\ iRuns' = iRuns + 1
  /\ iId' = IStartId(iRole, options, iRuns + 1)
  /\ iRoom' = IRoomOf(options)
  /\ iSubs' = {<<IOwn(iRole), iRoom'>>, <<IOwn(iRole), iRoom', iId'>>}
  /\ iOut' = <<[topic |-> <<IOther(iRole), iRoom', All>>,
                type |-> "invoke", id |-> iId']>>
  /\ UNCHANGED <<iRole, net, sVars, rVars, qVars, dLost>>

\* start(options)
IStart(options) ==
  /\ iRole # NoRole
  /\ IF iActive
    THEN /\ iOut' = <<>>
         /\ UNCHANGED <<iRole, iActive, iId, iRoom, iSubs, iRuns, net, sVars, rVars, qVars, dLost>>
    ELSE /\ iRuns < MaxRuns
         /\ iActive' = TRUE
         /\ iRuns' = iRuns + 1
         /\ iId' = IStartId(iRole, options, iRuns + 1)
         /\ iRoom' = IRoomOf(options)
         /\ iSubs' = {<<IOwn(iRole), iRoom'>>, <<IOwn(iRole), iRoom', iId'>>}
         /\ iOut' = <<[topic |-> <<IOther(iRole), iRoom', All>>,
                       type |-> "invoke", id |-> iId']>>
         /\ UNCHANGED <<iRole, net, sVars, rVars, qVars, dLost>>

\* stop(): a Sender's disposals publish dispose to the peers still registered
IStop ==
  /\ iRole # NoRole
  /\ IF ~iActive
    THEN /\ iOut' = <<>>
         /\ UNCHANGED <<iRole, iActive, iId, iRoom, iSubs, iRuns, net, sVars, rVars, qVars, dLost>>
    ELSE /\ iActive' = FALSE
         /\ iSubs' = iSubs \ {<<IOwn(iRole), iRoom>>, <<IOwn(iRole), iRoom, iId>>}
         /\ \E to \in {<<>>, <<"p1">>, <<"p1", "p2">>} :
              iOut' = IF iRole = "sender"
                        THEN [i \in 1..Len(to) |-> IMsg("dispose", to[i])]
                        ELSE <<>>
         /\ UNCHANGED <<iRole, iId, iRoom, iRuns, net, sVars, rVars, qVars, dLost>>

\* a handler, a listener or the ping timer publishes one message
IEmit(type, to) ==
  /\ iId # NoId
  /\ type \in ITypes(iRole)
  /\ iOut' = <<IMsg(type, to)>>
  /\ UNCHANGED <<iRole, iActive, iId, iRoom, iSubs, iRuns, net, sVars, rVars, qVars, dLost>>

IInit ==
  /\ iRole = NoRole
  /\ iActive = FALSE
  /\ iId = NoId
  /\ iRoom = NoRoom
  /\ iSubs = {}
  /\ iRuns = 0
  /\ iOut = <<>>

SInit ==
  /\ sActive = FALSE
  /\ sVerify \in BOOLEAN
  /\ sStarts = 0
  /\ sConnections = [id \in Ids |-> 0]
  /\ sCandidateQueues = [id \in Ids |-> <<>>]
  /\ sConn = <<>>
  /\ sTasks = {}
  /\ sErrors = [id \in Ids |-> 0]
  /\ sArrived = [id \in Ids |-> 0]

RInit ==
  /\ rActive = FALSE
  /\ rStarts = 0
  /\ rConnections = [id \in Ids |-> 0]
  /\ rCandidateQueues = [id \in Ids |-> <<>>]
  /\ rConn = <<>>
  /\ rTasks = {}
  /\ rErrors = [id \in Ids |-> 0]
  /\ rArrived = [id \in Ids |-> 0]
  /\ rPing = 0
  /\ rTimer = FALSE

Init == net = {} /\ SInit /\ RInit /\ QInit /\ IInit /\ dLost = None

\* The Sender with a driver that may deliver any message of one receiver
SNext ==
  \/ SStart
  \/ SStop
  \/ \E id \in SPeers : SDeliver(id)
  \/ \E t \in sTasks, ok \in BOOLEAN :
       \/ SVerifyDone(t, ok)
       \/ SCreateOfferDone(t, ok)
       \/ SSetLocalDone(t, ok)
       \/ SSrdDone(t, ok)
       \/ SDrainStep(t, ok)
       \/ SAddIceDone(t, ok)
  \/ \E k \in 1..MaxConns :
       \/ STimeout(k)
       \/ \E state \in {"connected", "disconnected", "failed"} : SIceState(k, state)

SpecS == Init /\ [][SNext]_vars

\* The Receiver with a driver that may deliver any message of one sender
RNext ==
  \/ RStart
  \/ RStop
  \/ \E id \in RPeers : RDeliver(id)
  \/ \E t \in rTasks, ok \in BOOLEAN :
       \/ RSrdDone(t, ok)
       \/ RDrainStep(t, ok)
       \/ RCreateAnswerDone(t, ok)
       \/ RSetLocalDone(t, ok)
       \/ RAddIceDone(t, ok)
  \/ \E k \in 1..MaxConns :
       \/ RTimeout(k)
       \/ \E state \in {"connected", "disconnected", "failed"} : RIceState(k, state)

SpecR == Init /\ [][RNext]_vars

\* One instance per run: either the Sender or the Receiver is started
OneNext == (rStarts = 0 /\ SNext) \/ (sStarts = 0 /\ RNext)

SpecOne == Init /\ [][OneNext]_vars

\* The Sender without candidate messages, with timers that fire unless cleared
STInput(id) == {m \in SInput(id) : m.type # "candidate"}

STDeliver(id) ==
  /\ sActive
  /\ \E m \in STInput(id) : SHandle(m, net)
  /\ UNCHANGED <<rVars, qVars, iVars, dLost>>

STNext ==
  \/ SStart
  \/ SStop
  \/ \E id \in SPeers : STDeliver(id)
  \/ \E t \in sTasks, ok \in BOOLEAN :
       \/ SVerifyDone(t, ok)
       \/ SCreateOfferDone(t, ok)
       \/ SSetLocalDone(t, ok)
       \/ SSrdDone(t, ok)
  \/ \E k \in 1..MaxConns :
       \/ STimeout(k)
       \/ \E state \in {"connected", "disconnected", "failed"} : SIceState(k, state)

SpecT == Init /\ [][STNext]_vars /\ \A k \in 1..MaxConns : WF_vars(STimeout(k))

\* The handshake scenario: Sender a1 starts, then Receiver b1; the driver
\* delivers every published message to the subscribed instance, in any order;
\* the engines accept every operation and report `connected` once both
\* descriptions are set; no timer but the ping fires, nobody stops.
\* The driver takes the published message m and calls the handler subscribed
\* to its address
\* a driver that delivers whatever is published in the room
SDeliversAnyRole(m) ==
  /\ sActive
  /\ m \in net
  /\ m.room = RoomOf(SID) /\ m.to \in {All, SID}
  /\ SHandle(m, net \ {m})
  /\ UNCHANGED <<rVars, qVars, iVars, dLost>>

SDelivers(m) ==
  /\ sActive
  /\ m \in net
  /\ m.role = "sender" /\ m.room = RoomOf(SID) /\ m.to \in {All, SID}
  /\ SHandle(m, net \ {m})
  /\ UNCHANGED <<rVars, qVars, iVars, dLost>>

RDelivers(m) ==
  /\ rActive
  /\ m \in net
  /\ m.role = "receiver" /\ m.room = RoomOf(RID) /\ m.to \in {All, RID}
  /\ RHandle(m, net \ {m})
  /\ UNCHANGED <<sVars, qVars, iVars, dLost>>

HToSender(type) == \E m \in net : m.type = type /\ SDelivers(m)

HToReceiver(type) == \E m \in net : m.type = type /\ RDelivers(m)

HTypes == {"invoke", "offer", "answer", "candidate", "dispose"}

HSenderStep ==
  \E t \in sTasks : \/ SCreateOfferDone(t, TRUE)
                    \/ SSetLocalDone(t, TRUE)
                    \/ SSrdDone(t, TRUE)
                    \/ SDrainStep(t, TRUE)
                    \/ SAddIceDone(t, TRUE)

HReceiverStep ==
  \E t \in rTasks : \/ RSrdDone(t, TRUE)
                    \/ RDrainStep(t, TRUE)
                    \/ RCreateAnswerDone(t, TRUE)
                    \/ RSetLocalDone(t, TRUE)
                    \/ RAddIceDone(t, TRUE)

HSenderEngine ==
  \E k \in 1..MaxConns : SIceState(k, "connected") \/ SIceCandidate(k)

HReceiverEngine ==
  \E k \in 1..MaxConns : RIceState(k, "connected") \/ RIceCandidate(k)

HNext ==
  \/ SStart
  \/ (sActive /\ RStart)
  \/ RPingTick
  \/ \E type \in HTypes : HToSender(type)
  \/ \E type \in HTypes : HToReceiver(type)
  \/ HSenderStep
  \/ HReceiverStep
  \/ HSenderEngine
  \/ HReceiverEngine

HInit == Init /\ ~sVerify

SpecH ==
  /\ HInit /\ [][HNext]_vars
  /\ WF_vars(SStart) /\ WF_vars(sActive /\ RStart)
  /\ \A type \in HTypes : WF_vars(HToSender(type)) /\ WF_vars(HToReceiver(type))
  /\ WF_vars(HSenderStep) /\ WF_vars(HReceiverStep)
  /\ WF_vars(HSenderEngine) /\ WF_vars(HReceiverEngine)

\* The discovery scenario: Receiver b1 starts in a room without a Sender,
\* then Sender a1 starts.  The driver is as in the handshake scenario and
\* drops a message whose address has no subscriber; the ping timer does not
\* tick.
\* the driver finds no handler under the key of m
DLost(m) ==
  /\ m \in net
  /\ \/ m.role = "sender" /\ ~sActive
     \/ m.role = "receiver" /\ ~rActive
  /\ net' = net \ {m}
  /\ UNCHANGED <<sVars, rVars, qVars, iVars, dLost>>

\* the Sender starts after the Receiver's announce found no subscriber
DSenderStart ==
  /\ rActive
  /\ \A m \in net : m.role # "sender"
  /\ SStart

DNext ==
  \/ RStart
  \/ \E m \in net : DLost(m)
  \/ DSenderStart
  \/ \E type \in HTypes : HToSender(type)
  \/ \E type \in HTypes : HToReceiver(type)
  \/ HSenderStep
  \/ HReceiverStep
  \/ HSenderEngine
  \/ HReceiverEngine

SpecD ==
  /\ HInit /\ [][DNext]_vars
  /\ WF_vars(RStart) /\ WF_vars(\E m \in net : DLost(m)) /\ WF_vars(DSenderStart)
  /\ \A type \in HTypes : WF_vars(HToSender(type)) /\ WF_vars(HToReceiver(type))
  /\ WF_vars(HSenderStep) /\ WF_vars(HReceiverStep)
  /\ WF_vars(HSenderEngine) /\ WF_vars(HReceiverEngine)

\* The lossy scenario: the handshake scenario with the connect timers
\* running and a driver that loses one offer or answer of the first
\* handshake.  Timers run for tens of seconds: a timer fires or ticks only
\* when no message is undelivered, no handler is suspended and no engine is
\* about to report.  An engine
\* reports `connected` only when both ends have set both descriptions, and
\* reports no local candidates.
\* the driver loses m
LDrop(m) ==
  /\ dLost = None
  /\ m \in net /\ m.type \in {"offer", "answer"} /\ m.gk = 1
  /\ net' = net \ {m}
  /\ dLost' = m.type
  /\ UNCHANGED <<sVars, rVars, qVars, iVars>>

LBothSet ==
  /\ sConnections[RID] # 0 /\ sConn[sConnections[RID]].rs
  /\ rConnections[SID] # 0 /\ rConn[rConnections[SID]].rs

\* an engine is about to report `connected`
LEnginePending ==
  /\ LBothSet
  /\ \/ sConn[sConnections[RID]].ice = "new"
     \/ rConn[rConnections[SID]].ice = "new"

LQuiet == net = {} /\ sTasks = {} /\ rTasks = {} /\ ~LEnginePending

LSenderEngine ==
  \E k \in 1..MaxConns :
    LBothSet /\ k = sConnections[RID] /\ SIceState(k, "connected")

LReceiverEngine ==
  \E k \in 1..MaxConns :
    LBothSet /\ k = rConnections[SID] /\ RIceState(k, "connected")

LTimers ==
  /\ LQuiet
  /\ \/ RPingTick
     \/ \E k \in 1..MaxConns : STimeout(k) \/ RTimeout(k)

LNext ==
  \/ SStart
  \/ (sActive /\ RStart)
  \/ \E m \in net : LDrop(m)
  \/ \E type \in HTypes : HToSender(type)
  \/ \E type \in HTypes : HToReceiver(type)
  \/ HSenderStep
  \/ HReceiverStep
  \/ LSenderEngine
  \/ LReceiverEngine
  \/ LTimers

SpecL ==
  /\ HInit /\ [][LNext]_vars
  /\ WF_vars(SStart) /\ WF_vars(sActive /\ RStart)
  /\ \A type \in HTypes : WF_vars(HToSender(type)) /\ WF_vars(HToReceiver(type))
  /\ WF_vars(HSenderStep) /\ WF_vars(HReceiverStep)
  /\ WF_vars(LSenderEngine) /\ WF_vars(LReceiverEngine)
  /\ WF_vars(LTimers)

\* One instance and a driver that holds at most one undelivered message for
\* it.  The messages are those that peers of the other role may publish, in
\* the room of the instance or in another one, an echo carrying the id of
\* the instance itself, messages that lack the type or the id, and the
\* announce of a peer of the instance's own role, which that peer publishes to
\* the other role.
MTypes == {"invoke", "offer", "answer", "dispose", None}

MInput(role, self) ==
  LET peer == IF role = "sender" THEN RID ELSE SID
      far == IF role = "sender" THEN "b3" ELSE "a3"
      mate == IF role = "sender" THEN "a2" ELSE "b2"
      other == IF role = "sender" THEN "receiver" ELSE "sender" IN
  {Msg(role, self, type, peer, 0, 0) : type \in MTypes}
  \cup {Msg(role, All, "invoke", id, 0, 0) : id \in {peer, far}}
  \cup {Msg(role, self, "invoke", id, 0, 0) : id \in {self, None}}
  \cup {Msg(role, self, "candidate", self, 1, 0)}
  \cup {Msg(other, All, "invoke", mate, 0, 0)}

MPublish(role, self) ==
  /\ ~\E m \in net : m.role = role
  /\ \E m \in MInput(role, self) : net' = net \cup {m}
  /\ UNCHANGED <<sVars, rVars, qVars, iVars, dLost>>

MNext ==
  \/ (rStarts = 0 /\ SStart)
  \/ (rStarts = 0 /\ SStop)
  \/ (sStarts > 0 /\ MPublish("sender", SID))
  \/ \E m \in net : SDelivers(m)
  \/ \E t \in sTasks, ok \in BOOLEAN :
       \/ SVerifyDone(t, ok)
       \/ SCreateOfferDone(t, ok)
       \/ SSetLocalDone(t, ok)
       \/ SSrdDone(t, ok)
  \/ \E k \in 1..MaxConns :
       \/ STimeout(k)
       \/ SIceCandidate(k)
       \/ \E state \in {"connected", "disconnected", "failed"} : SIceState(k, state)
  \/ (sStarts = 0 /\ RStart)
  \/ (sStarts = 0 /\ RStop)
  \/ (rStarts > 0 /\ MPublish("receiver", RID))
  \/ \E m \in net : RDelivers(m)
  \/ RPingTick
  \/ \E t \in rTasks, ok \in BOOLEAN :
       \/ RSrdDone(t, ok)
       \/ RCreateAnswerDone(t, ok)
       \/ RSetLocalDone(t, ok)
  \/ \E k \in 1..MaxConns :
       \/ RTimeout(k)
       \/ RIceCandidate(k)
       \/ \E state \in {"connected", "disconnected", "failed"} : RIceState(k, state)

SpecM == Init /\ [][MNext]_vars

\* One instance with two peers of its room.  No verify callback; the driver
\* delivers at most MaxCands2 candidate messages in all, and to the Receiver
\* no invoke (its reply concerns no Connection).
Peers2(role) == IF role = "sender" THEN {"b1", "b2"} ELSE {"a1", "a2"}

S2Arrived == sArrived["b1"] + sArrived["b2"]
R2Arrived == rArrived["a1"] + rArrived["a2"]

S2Deliver(id) ==
  /\ sActive
  /\ \E m \in SInput(id) :
       /\ m.type = "candidate" => S2Arrived < MaxCands2
       /\ SHandle(m, net)
  /\ UNCHANGED <<rVars, qVars, iVars, dLost>>

R2Deliver(id) ==
  /\ rActive
  /\ \E m \in RInput(id) :
       /\ m.type # "invoke"
       /\ m.type = "candidate" => R2Arrived < MaxCands2
       /\ RHandle(m, net)
  /\ UNCHANGED <<sVars, qVars, iVars, dLost>>

Next2 ==
  \/ (rStarts = 0 /\ SStart)
  \/ (rStarts = 0 /\ SStop)
  \/ \E id \in Peers2("sender") : S2Deliver(id)
  \/ \E t \in sTasks, ok \in BOOLEAN :
       \/ SCreateOfferDone(t, ok)
       \/ SSetLocalDone(t, ok)
       \/ SSrdDone(t, ok)
       \/ SDrainStep(t, ok)
       \/ SAddIceDone(t, ok)
  \/ \E k \in 1..MaxConns :
       \/ STimeout(k)
       \/ \E state \in {"connected", "disconnected", "failed"} : SIceState(k, state)
  \/ (sStarts = 0 /\ RStart)
  \/ (sStarts = 0 /\ RStop)
  \/ \E id \in Peers2("receiver") : R2Deliver(id)
  \/ \E t \in rTasks, ok \in BOOLEAN :
       \/ RSrdDone(t, ok)
       \/ RDrainStep(t, ok)
       \/ RCreateAnswerDone(t, ok)
       \/ RSetLocalDone(t, ok)
       \/ RAddIceDone(t, ok)
  \/ \E k \in 1..MaxConns :
       \/ RTimeout(k)
       \/ \E state \in {"connected", "disconnected", "failed"} : RIceState(k, state)

Spec2 == HInit /\ [][Next2]_vars

\* The Sender with send() and sync(): any calls and engine events
QNext ==
  \/ \E state \in Metas : QStart(state)
  \/ QStop
  \/ \E id \in QPeers :
       \/ QInvoke(id)
       \/ QDispose(id)
       \/ QChannelOpen(id)
       \/ QChannelClose(id)
  \/ \E id \in QPeers \cup {All} : QSend(id)
  \/ \E state \in Metas, merge \in BOOLEAN : QSync(state, merge)

SpecQ == Init /\ [][QNext]_vars

\* One instance under start(), stop() and its own publications
INext ==
  \/ \E role \in {"sender", "receiver"} : INew(role)
  \/ \E options \in IOptions : IStart(options)
  \/ IStop
  \/ \E type \in {"invoke", "offer", "answer", "candidate", "dispose"} :
       \E to \in IPeers \cup {All} : IEmit(type, to)

SpecI == Init /\ [][INext]_vars

\* ------------------------------------------------------------------ claims

Count(seq, x) == Cardinality({i \in DOMAIN seq : seq[i] = x})
Disposes(conn) == Cardinality({i \in DOMAIN conn.ev : conn.ev[i][1] = "dispose"})
Range(seq) == {seq[i] : i \in DOMAIN seq}
Live(C, id) == {k \in DOMAIN C : C[k].id = id /\ ~C[k].closed}
\* the addIceCandidate calls on a Connection's engine handle that passed a
\* candidate of the set cs
AppliedOf(conn, cs) == {i \in DOMAIN conn.applied : conn.applied[i][1] \in cs}

\* every addIceCandidate call, on any Connection of C, that passed candidate c
Passes(C, c) ==
  UNION {{<<k, i>> : i \in AppliedOf(C[k], {c})} : k \in DOMAIN C}

\* C1: the Sender never holds two undisposed Connections for one peer id
C1_SenderOneLiveConnectionPerPeer ==
  \A id \in ReceiverIds : Cardinality(Live(sConn, id)) <= 1

\* C2: every undisposed Connection of the Receiver is the registry entry of
\* its peer id, so a peer id has at most one, whatever offers arrive
C2_ReceiverOneLiveConnectionPerPeer ==
  \A k \in DOMAIN rConn : ~rConn[k].closed => rConnections[rConn[k].id] = k

\* C2 witness: a second offer of the same sender was admitted after the first
\* Connection was disposed, and one Connection is live
C2_Witness ==
  \E k1, k2 \in DOMAIN rConn :
    /\ k1 < k2 /\ rConn[k1].id = rConn[k2].id
    /\ rConn[k1].closed /\ ~rConn[k2].closed /\ rConn[k2].rs

\* C3: a candidate buffered before the offer is passed to addIceCandidate
\* exactly once, after setRemoteDescription, in arrival order, and is not lost
RDrainDone(k) ==
  /\ rActive /\ rConn[k].rs
  /\ ~\E t \in rTasks : t.kind = "offer" /\ t.k = k /\ t.pc \in {"srd", "drain"}

C3_ReceiverBufferedCandidatesOnceInOrder ==
  \A k \in DOMAIN rConn :
    LET conn == rConn[k]
        mine == AppliedOf(conn, Range(conn.pre)) IN
    /\ \A i \in mine : conn.applied[i][2]
    /\ \A i, j \in mine : i < j => conn.applied[i][1] < conn.applied[j][1]
    /\ \A c \in Range(conn.pre) :
         Cardinality(Passes(rConn, c)) <= 1
    /\ RDrainDone(k) =>
         \A c \in Range(conn.pre) :
           \E k2 \in DOMAIN rConn : AppliedOf(rConn[k2], {c}) # {}

\* C4: the Receiver passes no candidate to addIceCandidate before the remote
\* description of that Connection is set
C4_ReceiverNoCandidateBeforeRemoteDescription ==
  \A k \in DOMAIN rConn :
    \A i \in DOMAIN rConn[k].applied : rConn[k].applied[i][2]

\* C5: the Sender passes no candidate to addIceCandidate before the answer of
\* that Connection is applied
C5_SenderNoCandidateBeforeAnswer ==
  \A k \in DOMAIN sConn :
    \A i \in DOMAIN sConn[k].applied : sConn[k].applied[i][2]

\* C6: at most one dispose notification and at most one dispose message per
\* Connection
C6_DisposeOncePerConnection ==
  /\ \A k \in DOMAIN sConn : Disposes(sConn[k]) <= 1 /\ sConn[k].dmsg <= 1
  /\ \A k \in DOMAIN rConn : Disposes(rConn[k]) <= 1

\* C7: a Connection for which no answer is delivered is eventually disposed
\* by its connect timer, with the timeout error, and leaves the registry
STimedOut(k) ==
  /\ k \in DOMAIN sConn
  /\ sConn[k].timer = "fired"
  /\ sConnections[sConn[k].id] # k
  /\ Count(sConn[k].ev, DisposeEv("timeout")) = 1

SAnswered(k) == k \in DOMAIN sConn /\ sConn[k].got > 0

C7_NoAnswerTimesOut ==
  \A k \in 1..MaxConns :
    (k \in DOMAIN sConn) ~> (SAnswered(k) \/ STimedOut(k))

\* C7 as amended: ... unless stop() or a failure of createOffer or
\* setLocalDescription disposes the Connection first
SDisposedEarlier(k) ==
  /\ k \in DOMAIN sConn
  /\ sConn[k].closed /\ sConn[k].timer = "cleared"
  /\ sConn[k].ev[1] \in {DisposeEv("none"), DisposeEv("neg")}

C7_NoAnswerTimesOutUnlessDisposed ==
  \A k \in 1..MaxConns :
    (k \in DOMAIN sConn) ~> (SAnswered(k) \/ STimedOut(k) \/ SDisposedEarlier(k))

C7_Witness == \E k \in DOMAIN sConn : STimedOut(k) /\ sConn[k].got = 0

\* C8: a Connection whose connect timer fired has exactly one dispose
\* notification, the one with the timeout error, and no connect notification
\* after it
TimeoutThenSilent(conn) ==
  conn.timer = "fired" =>
    /\ Count(conn.ev, DisposeEv("timeout")) = 1
    /\ Disposes(conn) = 1
    /\ \A i, j \in DOMAIN conn.ev :
         conn.ev[i] = DisposeEv("timeout") /\ conn.ev[j] = ConnectEv => j < i
    /\ conn.ice = "new"

C8_TimeoutDisposesOnceNoConnectAfter ==
  /\ \A k \in DOMAIN sConn : TimeoutThenSilent(sConn[k])
  /\ \A k \in DOMAIN rConn : TimeoutThenSilent(rConn[k])

\* C9: a connect timer is armed only on the registry entry of its peer id and
\* only before connect is reported
C9_TimerArmedOnlyOnRegisteredUnconnected ==
  /\ \A k \in DOMAIN sConn :
       sConn[k].timer = "armed" =>
         sConnections[sConn[k].id] = k /\ sConn[k].ice = "new"
  /\ \A k \in DOMAIN rConn :
       rConn[k].timer = "armed" =>
         rConnections[rConn[k].id] = k /\ rConn[k].ice = "new"

\* C10: the handshake of a1 and b1 ends with one connect notification on each
\* side for the other's id, one registered Connection each, and no dispose
Connects(C, id) ==
  Cardinality({<<k, i>> \in (DOMAIN C) \X (1..4) :
                 i \in DOMAIN C[k].ev /\ C[k].id = id /\ C[k].ev[i] = ConnectEv})

NoDispose(C) == \A k \in DOMAIN C : Disposes(C[k]) = 0

HandshakeDone ==
  /\ Connects(sConn, RID) = 1 /\ Connects(rConn, SID) = 1
  /\ sConnections[RID] # 0 /\ rConnections[SID] # 0
  /\ Cardinality(Live(sConn, RID)) = 1 /\ Cardinality(Live(rConn, SID)) = 1
  /\ NoDispose(sConn) /\ NoDispose(rConn)

C10_HandshakeConnectsBothOnce == <>[]HandshakeDone

C10_Witness == HandshakeDone /\ sTasks = {} /\ rTasks = {}

\* ---- C11: the error of a disposal, by trigger
LastEv(conn) == conn.ev[Len(conn.ev)]

\* this step dispatched one dispose notification with this error for the
\* Sender's Connection k and left its peer id out of the registry
SDisposedBy(k, error) ==
  /\ Len(sConn'[k].ev) = Len(sConn[k].ev) + 1
  /\ LastEv(sConn'[k]) = DisposeEv(error)
  /\ sConnections'[sConn[k].id] = 0

RDisposedBy(k, error) ==
  /\ Len(rConn'[k].ev) = Len(rConn[k].ev) + 1
  /\ LastEv(rConn'[k]) = DisposeEv(error)
  /\ rConnections'[rConn[k].id] = 0

SRegistered == {k \in DOMAIN sConn : sConnections[sConn[k].id] = k}
RRegistered == {k \in DOMAIN rConn : rConnections[rConn[k].id] = k}

C11_EngineAndStop ==
  /\ \A k \in 1..MaxConns :
       /\ SIceState(k, "disconnected") => SDisposedBy(k, "none")
       /\ SIceState(k, "failed") => SDisposedBy(k, "ice")
       /\ RIceState(k, "disconnected") => RDisposedBy(k, "none")
       /\ RIceState(k, "failed") => RDisposedBy(k, "ice")
  /\ SStop => \A k \in SRegistered : SDisposedBy(k, "none")
  /\ RStop => \A k \in RRegistered : RDisposedBy(k, "none")

C11_ReceiverDisposeMessage ==
  \A m \in net :
    RDelivers(m) /\ m.type = "dispose" /\ ~RIgnores(m) /\ rConnections[m.id] # 0
      => RDisposedBy(rConnections[m.id], "none")

C11_SenderDisposeMessage ==
  \A m \in net :
    SDelivers(m) /\ m.type = "dispose" /\ ~SIgnores(m) /\ sConnections[m.id] # 0
      => SDisposedBy(sConnections[m.id], "none")

\* C11: a `disconnected` report, a dispose message of the peer and stop()
\* dispose the Connection without error, a `failed` report with the ICE
\* error, and each removes the peer id from the registry (both roles)
C11_DisposalErrorByTrigger ==
  [][C11_EngineAndStop /\ C11_ReceiverDisposeMessage /\ C11_SenderDisposeMessage]_vars

\* the part of C11 without the dispose message delivered to a Sender
C11_ExceptSenderDisposeMessage ==
  [][C11_EngineAndStop /\ C11_ReceiverDisposeMessage]_vars

\* ---- C12: negotiation errors
Published(type) == {m \in net' \ net : m.type = type}

SNegotiationFails(t) ==
  \/ SCreateOfferDone(t, FALSE)
  \/ SSetLocalDone(t, FALSE)
  \/ SSrdDone(t, FALSE)

RNegotiationFails(t) ==
  \/ RSrdDone(t, FALSE)
  \/ RCreateAnswerDone(t, FALSE)
  \/ RSetLocalDone(t, FALSE)

\* C12: a negotiation call that fails while its Connection is registered
\* disposes that Connection with the error, removes it from the registry and
\* publishes no offer (answer)
C12_NegotiationErrorDisposes ==
  [][/\ \A t \in sTasks :
          SNegotiationFails(t) /\ sConnections[t.id] = t.k
            => /\ SDisposedBy(t.k, "neg")
               /\ sConn'[t.k].sent = sConn[t.k].sent
               /\ Published("offer") = {}
     /\ \A t \in rTasks :
          RNegotiationFails(t) /\ rConnections[t.id] = t.k
            => /\ RDisposedBy(t.k, "neg")
               /\ rConn'[t.k].sent = rConn[t.k].sent
               /\ Published("answer") = {}]_vars

\* C12 witness: a Connection disposed by a negotiation error before its offer
\* was sent
C12_Witness ==
  \E k \in DOMAIN sConn :
    /\ sConn[k].ev = <<DisposeEv("neg")>> /\ sConn[k].sent = 0
    /\ sConnections[sConn[k].id] = 0

\* ---- C13: candidate errors
\* the drain loop of task t goes on after this step: it has passed the next
\* candidate of its array to the engine, or it was at the end of the array
DrainGoesOn(t, arr, tasks, C) ==
  IF t.i < Len(arr)
    THEN /\ \E u \in tasks : u.pc = "drain" /\ u.k = t.k /\ u.i = t.i + 1
         /\ Len(C[t.k].applied) > 0
         /\ C[t.k].applied[Len(C[t.k].applied)][1] = arr[t.i + 1]
    ELSE TRUE

SameTimers(C, D) == \A k \in DOMAIN C : D[k].timer = C[k].timer /\ D[k].ev = C[k].ev

\* C13: a rejected candidate gives one error notification for the peer id,
\* leaves the registry and the timers alone, and the drain goes on
C13_CandidateErrorNonFatal ==
  [][/\ \A t \in sTasks :
          /\ SAddIceDone(t, FALSE) \/ SDrainStep(t, FALSE)
               => /\ sErrors'[t.id] = sErrors[t.id] + 1
                  /\ sConnections' = sConnections
                  /\ SameTimers(sConn, sConn')
          /\ SDrainStep(t, FALSE)
               => DrainGoesOn(t, DrainArray(t, sCandidateQueues), sTasks', sConn')
     /\ \A t \in rTasks :
          /\ RAddIceDone(t, FALSE) \/ RDrainStep(t, FALSE)
               => /\ rErrors'[t.id] = rErrors[t.id] + 1
                  /\ rConnections' = rConnections
                  /\ SameTimers(rConn, rConn')
          /\ RDrainStep(t, FALSE)
               => DrainGoesOn(t, DrainArray(t, rCandidateQueues), rTasks', rConn')]_vars

\* C13 witness: an error was reported for a peer whose Connection is still
\* registered and got both buffered candidates
C13_Witness ==
  \E k \in DOMAIN rConn :
    /\ rConnections[rConn[k].id] = k /\ ~rConn[k].closed
    /\ rErrors[rConn[k].id] > 0
    /\ Len(rConn[k].pre) = 2
    /\ Range(rConn[k].pre) \subseteq {rConn[k].applied[i][1] : i \in DOMAIN rConn[k].applied}

\* ---- C14: containment
\* all that an instance holds, dispatched and published about peer id
SView(id) ==
  <<sConnections[id], sCandidateQueues[id], sErrors[id],
    {<<k, sConn[k]>> : k \in {j \in DOMAIN sConn : sConn[j].id = id}},
    {m \in net : m.role = "receiver" /\ m.to = id}>>

RView(id) ==
  <<rConnections[id], rCandidateQueues[id], rErrors[id],
    {<<k, rConn[k]>> : k \in {j \in DOMAIN rConn : rConn[j].id = id}},
    {m \in net : m.role = "sender" /\ m.to = id}>>

\* this step is a disposal, negotiation error, candidate error or timeout
\* concerning peer p
SFailure(p) ==
  \/ \E k \in DOMAIN sConn :
       /\ sConn[k].id = p
       /\ \/ STimeout(k)
          \/ SIceState(k, "disconnected")
          \/ SIceState(k, "failed")
  \/ \E t \in sTasks :
       /\ t.id = p
       /\ SNegotiationFails(t) \/ SDrainStep(t, FALSE) \/ SAddIceDone(t, FALSE)

RFailure(p) ==
  \/ \E k \in DOMAIN rConn :
       /\ rConn[k].id = p
       /\ \/ RTimeout(k)
          \/ RIceState(k, "disconnected")
          \/ RIceState(k, "failed")
  \/ \E t \in rTasks :
       /\ t.id = p
       /\ RNegotiationFails(t) \/ RDrainStep(t, FALSE) \/ RAddIceDone(t, FALSE)
  \/ (rActive /\ rConnections[p] # 0 /\ RDisposeMsg(p, net) /\ UNCHANGED sVars)

\* C14: a failure concerning peer p changes nothing that concerns another
\* peer q
C14_FailureContained ==
  [][\A p \in Ids :
       /\ SFailure(p) => \A q \in Ids \ {p} : SView(q)' = SView(q)
       /\ RFailure(p) => \A q \in Ids \ {p} : RView(q)' = RView(q)]_vars

\* C14 witness: the Connection of one peer was disposed with an error while
\* the Connection of another peer is registered and undisposed
C14_Witness ==
  \E k1, k2 \in DOMAIN sConn :
    /\ sConn[k1].id # sConn[k2].id
    /\ sConn[k1].closed /\ LastEv(sConn[k1]) \in {DisposeEv("neg"), DisposeEv("ice"), DisposeEv("timeout")}
    /\ ~sConn[k2].closed /\ sConnections[sConn[k2].id] = k2

\* ---- C15: disposal notifies the remote peer
\* this step dispatched a dispose notification for Connection k of C after an
\* engine `failed` report or a negotiation exception
DisposedByFailure(C, D, k) ==
  /\ Len(D[k].ev) = Len(C[k].ev) + 1
  /\ LastEv(D[k]) \in {DisposeEv("ice"), DisposeEv("neg")}

DisposeMsgs(role, id, k) ==
  {m \in net' : m.type = "dispose" /\ m.role = role /\ m.to = id /\ m.gk = k}

C15_SenderNotifies ==
  \A k \in DOMAIN sConn :
    DisposedByFailure(sConn, sConn', k) \/ SIceState(k, "disconnected")
      => /\ sConn'[k].dmsg = sConn[k].dmsg + 1
         /\ DisposeMsgs("receiver", sConn[k].id, k) # {}

C15_ReceiverNotifies ==
  \A k \in DOMAIN rConn :
    DisposedByFailure(rConn, rConn', k) \/ RIceState(k, "disconnected")
      => /\ rConn'[k].dmsg = rConn[k].dmsg + 1
         /\ DisposeMsgs("sender", rConn[k].id, k) # {}

\* C15: a disposal caused by a `failed` or `disconnected` report or by a
\* negotiation exception publishes a dispose message to that peer
C15_DisposalNotifiesPeer == [][C15_SenderNotifies /\ C15_ReceiverNotifies]_vars

\* the Sender's half of C15
C15_SenderHalf == [][C15_SenderNotifies]_vars

\* ---- C16: the Receiver handles a dispose message
\* C16: a dispose message of S disposes the registered Connection of S
\* without error and publishes nothing; without such a Connection it changes
\* nothing
C16_ReceiverDisposeMessage ==
  [][\A m \in net :
       RDelivers(m) /\ m.type = "dispose" /\ ~RIgnores(m)
         => /\ net' = net \ {m}
            /\ IF rConnections[m.id] # 0
                 THEN LET k == rConnections[m.id] IN
                      /\ RDisposedBy(k, "none")
                      /\ rConn'[k].closed /\ rConn'[k].timer # "armed"
                      /\ \A j \in DOMAIN rConn \ {k} : rConn'[j] = rConn[j]
                      /\ \A id \in Ids \ {m.id} : rConnections'[id] = rConnections[id]
                      /\ UNCHANGED <<rActive, rCandidateQueues, rTasks, rErrors, rPing, rTimer>>
                 ELSE UNCHANGED rVars]_vars

\* C16 witness: an active Receiver whose Connection, with no remote
\* description yet, was disposed without error
C16_Witness ==
  /\ rActive
  /\ \E k \in DOMAIN rConn :
       /\ rConn[k].ev = <<DisposeEv("none")>> /\ ~rConn[k].rs
       /\ rConnections[rConn[k].id] = 0

\* ---- C17: Sender.stop()
\* C17: stop() on an active Sender publishes one dispose message and
\* dispatches one dispose notification without error per registered
\* Connection, and leaves the registry and the candidate buffers empty and the
\* Sender inactive (unsubscribed); on an inactive Sender it does nothing
C17_SenderStop ==
  [][SStop =>
       /\ sActive /\ ~sActive'
       /\ \A k \in SRegistered :
            /\ SDisposedBy(k, "none")
            /\ sConn'[k].dmsg = sConn[k].dmsg + 1 /\ sConn'[k].dmsg = 1
            /\ DisposeMsgs("receiver", sConn[k].id, k) # {}
       /\ \A k \in DOMAIN sConn \ SRegistered : sConn'[k] = sConn[k]
       /\ {m \in net' \ net : m.type # "dispose"} = {}
       /\ \A id \in Ids : sConnections'[id] = 0 /\ sCandidateQueues'[id] = <<>>]_vars

\* C17 witness: a stopped Sender whose Connection was disposed by stop() while
\* a candidate was buffered
C17_Witness ==
  /\ ~sActive /\ sStarts > 0
  /\ \E id \in Ids : sArrived[id] > 0 /\ sCandidateQueues[id] = <<>>
  /\ \E k \in DOMAIN sConn :
       sConn[k].ev = <<DisposeEv("none")>> /\ ~sConn[k].rs /\ sConn[k].dmsg = 1

Suppressed(m, self) == m.type = None \/ m.id = None \/ m.id = self

\* C19: the delivery of a message that carries the instance's own id, or no
\* type, or no id, changes nothing of the Sender or Receiver (registry,
\* candidate buffers, timers, Connections, notifications) and publishes
\* nothing: the message is only taken from the driver
C19_SelfSuppression ==
  [][\A m \in net :
       /\ (SDelivers(m) /\ Suppressed(m, SID)) =>
            net' = net \ {m} /\ UNCHANGED sVars
       /\ (RDelivers(m) /\ Suppressed(m, RID)) =>
            net' = net \ {m} /\ UNCHANGED rVars]_vars

\* C19 witness: a message with the Sender's own id is about to be delivered
\* to an active Sender that holds a registered Connection with an armed timer
C19_Witness ==
  /\ sActive
  /\ \E m \in net : m.role = "sender" /\ m.id = SID /\ m.type = "invoke"
                     /\ ENABLED SDelivers(m)
  /\ \E k \in SRegistered : sConn[k].timer = NewTimer

\* ---- C20: addressing
\* a step of the instance itself, as opposed to a publication of a peer
OwnStep == ~MPublish("sender", SID) /\ ~MPublish("receiver", RID)

AddressedBy(m, self, target, peers) ==
  /\ m.role = target /\ m.room = RoomOf(self) /\ m.id = self
  /\ m.to = All => m.type = "invoke"
  /\ m.type \in {"offer", "answer", "candidate", "dispose"} =>
       m.to \in peers /\ RoomOf(m.to) = RoomOf(self)

\* C20: whatever a Sender publishes goes to the role 'receiver' in its room,
\* and whatever a Receiver publishes to the role 'sender' in its room; only
\* an invoke goes to the room-wide address, and offer, answer, candidate and
\* dispose go to one peer id; every Connection an instance holds is for a peer
\* of the other role and of its room
C20_Addressing ==
  [][/\ OwnStep =>
          \A m \in net' \ net :
            /\ sStarts' > 0 => AddressedBy(m, SID, "receiver", ReceiverIds)
            /\ rStarts' > 0 => AddressedBy(m, RID, "sender", SenderIds)
     /\ \A k \in DOMAIN sConn' :
          sConn'[k].id \in ReceiverIds /\ RoomOf(sConn'[k].id) = RoomOf(SID)
     /\ \A k \in DOMAIN rConn' :
          rConn'[k].id \in SenderIds /\ RoomOf(rConn'[k].id) = RoomOf(RID)]_vars

\* C20 witness: a Sender that holds a Connection and has published an offer,
\* a candidate and a dispose message, while the announces of a Sender of its
\* room and of a Receiver of another room are with the driver
C20_Witness ==
  /\ sStarts > 0 /\ sConn # <<>>
  /\ \A type \in {"invoke", "offer", "candidate", "dispose"} :
       \E m \in net : m.id = SID /\ m.role = "receiver" /\ m.type = type
  /\ \E m \in net : m.id = "a2" /\ m.type = "invoke"

\* ---- C21: verify gate
\* C21: when verify returns a falsy value for an invoke of R the handler ends:
\* no Connection is created, no timer armed, nothing published, nothing
\* dispatched, registry and buffers unchanged; with verify configured, every
\* handled invoke of an unregistered id calls verify (again)
C21_VerifyGate ==
  [][/\ \A t \in sTasks :
          SVerifyDone(t, FALSE) =>
            /\ sTasks' = sTasks \ {t}
            /\ UNCHANGED <<net, sActive, sVerify, sStarts, sConnections,
                           sCandidateQueues, sConn, sErrors, sArrived>>
     /\ \A m \in net :
          (/\ SDelivers(m) /\ m.type = "invoke" /\ ~Suppressed(m, SID)
           /\ sVerify /\ sConnections[m.id] = 0) =>
            /\ \E t \in sTasks' \ sTasks :
                 t.pc = "verify" /\ t.id = m.id /\ sTasks' = sTasks \cup {t}
            /\ UNCHANGED <<sConnections, sCandidateQueues, sConn, sErrors>>
            /\ net' = net \ {m}]_vars

\* C21 witness: verify is about to return for an invoke of R, no Connection
\* exists, and a further invoke of R is with the driver
C21_Witness ==
  /\ sActive /\ sVerify /\ sConn = <<>>
  /\ \E t \in sTasks : t.pc = "verify" /\ t.id = RID /\ ENABLED SVerifyDone(t, FALSE)
  /\ \E m \in net : m.role = "sender" /\ m.type = "invoke" /\ m.id = RID
                     /\ ENABLED SDelivers(m)

\* ---- C22: bounded re-discovery
REmpty == \A id \in Ids : rConnections[id] = 0

\* with an empty registry a ping tick publishes one invoke broadcast and
\* counts down while this._ping is positive, and does nothing once it is 0:
\* this._ping is the number of invokes the ticks to come will publish
TickCountsDown ==
  (RPingTick /\ REmpty) =>
    IF rPing > 0
      THEN rPing' = rPing - 1 /\ RInvokeMsg(All) \in net'
      ELSE rPing' = 0 /\ net' = net

\* C22: when the registry becomes empty after a ping tick has observed a
\* Connection (this._ping is positive only after such a tick), the ticks to
\* come publish exactly pingAttempts invoke broadcasts and then none
C22_BoundedRediscovery ==
  [][/\ TickCountsDown
     /\ (rActive' /\ ~REmpty /\ REmpty' /\ rPing > 0) => rPing' = PingAttempts]_vars

\* what the ticks do publish after the registry became empty: fewer than
\* pingAttempts invokes, the observing tick having published the first
C22_FewerThanPingAttempts ==
  [][/\ TickCountsDown
     /\ (rActive' /\ ~REmpty /\ REmpty' /\ rPing > 0) =>
          rPing' = rPing /\ rPing' < PingAttempts]_vars

\* ---- C23: invoke at the Receiver
\* C23: the delivery of an invoke message to a Receiver publishes nothing,
\* creates no Connection and changes neither registry nor candidate buffers
C23_ReceiverInvokeNoAction ==
  [][\A m \in net :
       (RDelivers(m) /\ m.type = "invoke" /\ ~Suppressed(m, RID)) =>
         net' = net \ {m} /\ UNCHANGED <<rConnections, rCandidateQueues, rConn>>]_vars

\* what the handler does: unless a Connection of the peer is registered it
\* publishes an invoke addressed to the peer; the Receiver's state is unchanged
C23_ReceiverInvokeReplies ==
  [][\A m \in net :
       (RDelivers(m) /\ m.type = "invoke" /\ ~Suppressed(m, RID)) =>
         /\ net' = (net \ {m}) \cup
                     (IF rConnections[m.id] = 0 THEN {RInvokeMsg(m.id)} ELSE {})
         /\ UNCHANGED rVars]_vars

\* ---- C24: order of the steps of one disposal
\* the timer is cancelled and the id removed before the channels are closed,
\* these before the engine handle, and message and notification come last
DisposeInOrder(start, run) ==
  \A i \in 1..Len(run) :
    /\ run[i].chans => run[i].timer # "armed" /\ run[i].reg = 0
    /\ run[i].peer => run[i].chans
    /\ run[i].dmsg # start.dmsg => run[i].peer
    /\ run[i].ev # start.ev => run[i].peer /\ run[i].reg = 0

\* the call as a whole does to the Connection and the registry what the
\* statements do one by one
DisposeAgrees(run, conn, reg) ==
  LET fin == run[Len(run)] IN
    /\ conn.timer = fin.timer /\ conn.closed = fin.peer
    /\ conn.dmsg = fin.dmsg /\ conn.ev = fin.ev
    /\ reg = fin.reg

DisposalOf(C, D, k) ==
  /\ Len(D[k].ev) = Len(C[k].ev) + 1
  /\ LastEv(D[k])[1] = "dispose"

\* C24: in every disposal, of Sender and Receiver, the connect timer is
\* cancelled and the peer id removed from the registry first, then the
\* channels are closed, then the engine handle, and only then the dispose
\* message (Sender) and the dispose notification are issued; at the
\* notification the peer id is not in the registry
C24_DisposalOrder ==
  [][/\ \A k \in DOMAIN sConn :
          DisposalOf(sConn, sConn', k) =>
            \E error \in {LastEv(sConn'[k])[2]} :
            \E start \in {DisposeStart(sConn[k], sConnections[sConn[k].id], error)} :
            \E run \in {DisposeRun(start, SDisposeOps, error)} :
              /\ DisposeInOrder(start, run)
              /\ DisposeAgrees(run, sConn'[k], sConnections'[sConn[k].id])
     /\ \A k \in DOMAIN rConn :
          DisposalOf(rConn, rConn', k) =>
            \E error \in {LastEv(rConn'[k])[2]} :
            \E start \in {DisposeStart(rConn[k], rConnections[rConn[k].id], error)} :
            \E run \in {DisposeRun(start, RDisposeOps, error)} :
              /\ DisposeInOrder(start, run)
              /\ DisposeAgrees(run, rConn'[k], rConnections'[rConn[k].id])]_vars

\* C24 witness: a Sender's Connection disposed after an ICE failure: timer
\* cleared, id out of the registry, handle closed, one message, one notification
C24_Witness ==
  \E k \in DOMAIN sConn :
    /\ sConn[k].ev = <<DisposeEv("ice")>> /\ sConn[k].timer = "cleared"
    /\ sConn[k].closed /\ sConn[k].dmsg = 1 /\ sConnections[sConn[k].id] = 0

\* ---- C25: no resurrection
\* the step registers a Connection for id: it is a new object with a new
\* engine handle (not closed, nothing dispatched) and a newly started timer,
\* and the Connections that exist are left as they are
AdmitsNew(conns, C, conns2, C2, id) ==
  (conns2[id] # 0 /\ conns2[id] # conns[id]) =>
    /\ conns2[id] = Len(C) + 1 /\ Len(C2) = Len(C) + 1
    /\ C2[conns2[id]].id = id
    /\ C2[conns2[id]].timer = NewTimer
    /\ ~C2[conns2[id]].closed /\ C2[conns2[id]].ev = <<>>
    /\ \A k \in DOMAIN C : C2[k] = C[k]

\* the negotiation that the handling of a message starts uses a Connection
\* that was never disposed
StartsOnUndisposed(tasks, tasks2, C2) ==
  \A t \in tasks2 \ tasks : t.k # 0 => Disposes(C2[t.k]) = 0

\* C25: a disposed Connection is never in the registry, the handling of a
\* message never starts a negotiation on a disposed Connection's engine
\* handle, and whenever a Connection is registered for a peer id it is a new
\* one with a new handle and a newly started connect timer
C25_NoResurrection ==
  [][/\ \A id \in Ids :
          /\ sConnections'[id] # 0 => Disposes(sConn'[sConnections'[id]]) = 0
          /\ rConnections'[id] # 0 => Disposes(rConn'[rConnections'[id]]) = 0
          /\ AdmitsNew(sConnections, sConn, sConnections', sConn', id)
          /\ AdmitsNew(rConnections, rConn, rConnections', rConn', id)
     /\ \A m \in net :
          /\ SDelivers(m) => StartsOnUndisposed(sTasks, sTasks', sConn')
          /\ RDelivers(m) => StartsOnUndisposed(rTasks, rTasks', rConn')]_vars

\* C25 witness: after the disposal of its Connection for a peer the Sender
\* holds a second, registered Connection for the same peer
C25_Witness ==
  \E j, k \in DOMAIN sConn :
    /\ j < k /\ sConn[j].id = sConn[k].id
    /\ Disposes(sConn[j]) = 1 /\ sConnections[sConn[k].id] = k
    /\ sConn[k].timer = NewTimer /\ ~sConn[k].closed

\* ---- C26: candidate buffer consumption
\* the step ends the drain loop of task t
DrainEnds(t, queues) == t.pc = "drain" /\ t.i >= Len(DrainArray(t, queues))

\* the buffer entry of the peer id is deleted
BufferDeleted(t, queues2) == queues2[t.id] = <<>>

\* each candidate of the drained array was passed to addIceCandidate exactly
\* once, all engine handles taken together
EachPassedOnce(t, queues, C2) ==
  \A c \in Range(DrainArray(t, queues)) : Cardinality(Passes(C2, c)) = 1

\* a candidate message of a peer whose Connection is registered is passed to
\* that Connection's engine handle and no buffer changes
PassedDirectly(arrived, arrived2, conns, queues, queues2, C, C2) ==
  \A id \in Ids :
    (arrived2[id] = arrived[id] + 1 /\ conns[id] # 0) =>
      /\ queues2 = queues
      /\ C2[conns[id]].applied =
           Append(C[conns[id]].applied, <<arrived2[id], C[conns[id]].rs>>)

C26_Direct ==
  /\ PassedDirectly(sArrived, sArrived', sConnections, sCandidateQueues,
                    sCandidateQueues', sConn, sConn')
  /\ PassedDirectly(rArrived, rArrived', rConnections, rCandidateQueues,
                    rCandidateQueues', rConn, rConn')

\* C26: when the drain after setRemoteDescription ends, the buffer entry of
\* the peer id is deleted and each buffered candidate has been passed to the
\* engine exactly once; a candidate that arrives while the Connection of its
\* peer is registered is passed directly, without a buffer entry
C26_BufferConsumption ==
  [][/\ \A t \in sTasks, ok \in BOOLEAN :
          (SDrainStep(t, ok) /\ DrainEnds(t, sCandidateQueues)) =>
            /\ BufferDeleted(t, sCandidateQueues')
            /\ EachPassedOnce(t, sCandidateQueues, sConn')
     /\ \A t \in rTasks, ok \in BOOLEAN :
          (RDrainStep(t, ok) /\ DrainEnds(t, rCandidateQueues)) =>
            /\ BufferDeleted(t, rCandidateQueues')
            /\ EachPassedOnce(t, rCandidateQueues, rConn')
     /\ C26_Direct]_vars

\* what holds: the end of a drain deletes the buffer entry, and candidates
\* of a registered peer are passed directly
C26_DeletedAndDirect ==
  [][/\ \A t \in sTasks, ok \in BOOLEAN :
          (SDrainStep(t, ok) /\ DrainEnds(t, sCandidateQueues)) =>
            BufferDeleted(t, sCandidateQueues')
     /\ \A t \in rTasks, ok \in BOOLEAN :
          (RDrainStep(t, ok) /\ DrainEnds(t, rCandidateQueues)) =>
            BufferDeleted(t, rCandidateQueues')
     /\ C26_Direct]_vars

\* ---- C27: outbound queue bound
\* send() reaches the Connection of p, whose channel is not open
QueuesFor(p, target) ==
  /\ QSend(target) /\ target \in {p, All}
  /\ qConnections[p].reg /\ qConnections[p].channel # "open"

\* C27: the queue of a Connection never holds more than queueSize payloads; a
\* send() on a channel that is not open appends the payload, and when the
\* queue is full it removes the oldest entry and keeps the others in order
C27_QueueBound ==
  [][\A p \in QPeers :
       /\ Len(qConnections'[p].queue) <= QueueSize
       /\ \A target \in QPeers \cup {All} :
            QueuesFor(p, target) =>
              qConnections'[p].queue =
                IF Len(qConnections[p].queue) < QueueSize
                  THEN Append(qConnections[p].queue, qSends + 1)
                  ELSE Tail(qConnections[p].queue) \o <<qSends + 1>>]_vars

\* C27 witness: more payloads were queued than the queue holds, and the queue
\* is full
C27_Witness ==
  \E p \in QPeers :
    /\ qConnections[p].reg /\ qConnections[p].channel = "connecting"
    /\ qConnections[p].pushed > QueueSize
    /\ Len(qConnections[p].queue) = QueueSize

\* ---- C28: outbound queue flush
Increasing(seq) == \A i, j \in DOMAIN seq : i < j => seq[i] < seq[j]

\* C28: when the channel of a Connection opens, the queued payloads are passed
\* to the channel in enqueue order and the queue is empty; a send() on an open
\* channel passes its payload at once, after them; so the payloads reach the
\* channel in the order of their send() calls and an open channel has an
\* empty queue
C28_QueueFlush ==
  [][\A p \in QPeers :
       /\ QChannelOpen(p) =>
            /\ qConnections'[p].out = qConnections[p].out \o qConnections[p].queue
            /\ qConnections'[p].queue = <<>>
       /\ \A target \in QPeers \cup {All} :
            (/\ QSend(target) /\ target \in {p, All}
             /\ qConnections[p].reg /\ qConnections[p].channel = "open") =>
              /\ qConnections'[p].out = Append(qConnections[p].out, qSends + 1)
              /\ qConnections'[p].queue = <<>>
       /\ qConnections'[p].channel = "open" => qConnections'[p].queue = <<>>
       /\ Increasing(qConnections'[p].out)]_vars

\* C28 witness: two payloads were queued and flushed at the open, and a
\* payload sent afterwards follows them on the channel
C28_Witness ==
  \E p \in QPeers :
    /\ qConnections[p].channel = "open" /\ qConnections[p].flushed >= 2
    /\ Len(qConnections[p].out) > qConnections[p].flushed

\* ---- C29: sync
\* one sync message carrying this.state to every registered peer id
SyncPublished ==
  /\ Len(qEmit') = Cardinality({p \in QPeers : qConnections[p].reg})
  /\ \A p \in QPeers :
       qConnections[p].reg =>
         \E i \in DOMAIN qEmit' :
           qEmit'[i] = [type |-> "sync", to |-> p, state |-> qState']

\* the old metadata overridden key by key
Merged(state) ==
  \A key \in MetaKeys :
    qState'[key] = IF state[key] # Absent THEN state[key] ELSE qState[key]

\* C29: sync(metadata, merge) with merge set overrides the local metadata key
\* by key, without merge replaces it by metadata, and publishes one sync
\* message with the resulting metadata to every registered peer id
C29_Sync ==
  [][\A state \in Metas, merge \in BOOLEAN :
       QSync(state, merge) =>
         /\ IF merge THEN Merged(state) ELSE qState' = state
         /\ SyncPublished]_vars

\* what sync() does: without merge the local metadata stays as it is
C29_SyncKeepsWithoutMerge ==
  [][\A state \in Metas, merge \in BOOLEAN :
       QSync(state, merge) =>
         /\ IF merge THEN Merged(state) ELSE qState' = qState
         /\ SyncPublished]_vars

\* ---- C30
\* the messages a step published all carry id
AllCarry(out, id) == \A i \in 1..Len(out) : out[i].id = id

\* a step of an instance that is active before or after it leaves this.id as
\* it was unless it is the start that made the instance active, and every
\* message it publishes carries that id
IdentityKept ==
  /\ iActive => iId' = iId
  /\ (iActive \/ iActive') => AllCarry(iOut', iId')

\* a start() call on an active instance
StartOnActive == iActive /\ \E options \in IOptions : IStart(options)

\* C30: every message an instance publishes between a start() and the next
\* stop() carries the same id, and start() on an already active instance
\* changes neither the id nor the room nor the subscriptions and publishes
\* no invoke.
C30_InstanceIdentity ==
  [][/\ IdentityKept
     /\ StartOnActive =>
          /\ iId' = iId /\ iRoom' = iRoom /\ iSubs' = iSubs
          /\ \A i \in 1..Len(iOut') : iOut'[i].type # "invoke"]_vars

\* an instance in its second run, with another id than in the first, right
\* after a start() call that found it active
C30_Witness ==
  /\ iActive /\ iRuns > 1 /\ iId = Uuid(iRuns)
  /\ iOut = <<>>

\* ---- C31: candidate order on one Connection
\* the candidates passed to the engine handle of conn, in call order
CandidatesOf(conn) == [i \in DOMAIN conn.applied |-> conn.applied[i][1]]

\* C31: on every Connection of the Receiver the addIceCandidate calls follow
\* the arrival order of the peer's candidate messages (candidates are
\* numbered by arrival), also for a candidate that arrives while buffered
\* ones are still waiting to be passed
C31_CandidateOrder ==
  \A k \in DOMAIN rConn : Increasing(CandidatesOf(rConn[k]))

\* ---- C32: the discovery-ping counter
\* this._ping after the tick has set it to pingAttempts on a non-empty registry
PingArmed == IF REmpty THEN rPing ELSE PingAttempts

C33_DiscoveryAnyStartOrder == <>[](HandshakeDone /\ rPing = 0)

\* both sides connected, every handler finished and every message delivered,
\* the Receiver's own announce having been dropped and no tick having run
C33_Witness ==
  /\ HandshakeDone /\ sTasks = {} /\ rTasks = {} /\ net = {}
  /\ rPing = 0 /\ rTimer

\* ---- C34: recovery from one lost message
\* each side holds a Connection for the other that has reported connected
BothConnected ==
  /\ sConnections[RID] # 0 /\ sConn[sConnections[RID]].ice = "connected"
  /\ rConnections[SID] # 0 /\ rConn[rConnections[SID]].ice = "connected"

\* C34: when the driver loses one offer or one answer of the first handshake
\* and delivers every other message, the connect timers running, a state
\* follows where each side holds a connected Connection for the other
C34_RecoversFromOneLoss == (dLost # None) ~> BothConnected

\* ---- C35: candidates of an earlier Connection
\* the candidates of the peer that had arrived when Connection k was created
\* or that were passed to its engine handle
SeenBy(C, k) == Range(C[k].pre) \cup Range(CandidatesOf(C[k]))

\* C35: a candidate that arrived before a Connection of its peer was disposed
\* is never passed to the engine handle of a later Connection of that peer
\* (a Receiver admits a Connection for a peer id only after the earlier one
\* was disposed)
C35_NoStaleCandidates ==
  \A k1, k2 \in DOMAIN rConn :
    (k1 < k2 /\ rConn[k1].id = rConn[k2].id) =>
      AppliedOf(rConn[k2], SeenBy(rConn, k1)) = {}

\* ---- C36: a late failure of an old Connection
\* task t is a suspended handler of a disposed Connection whose peer id has a
\* new Connection in the registry
OldHandler(t, C, conns) ==
  /\ t.k \in DOMAIN C /\ C[t.k].closed
  /\ conns[t.id] # 0 /\ conns[t.id] # t.k

\* the step leaves the registry entry of the peer id and the engine handle of
\* the new Connection alone and publishes no dispose message
SuccessorUnharmed(id, C, C2, conns, conns2) ==
  /\ conns2[id] = conns[id]
  /\ ~C2[conns[id]].closed
  /\ \A k \in DOMAIN C : C2[k].dmsg = C[k].dmsg

SSettles(t, ok) ==
  \/ SCreateOfferDone(t, ok) \/ SSetLocalDone(t, ok) \/ SSrdDone(t, ok)
  \/ SDrainStep(t, ok) \/ SAddIceDone(t, ok)

RSettles(t, ok) ==
  \/ RSrdDone(t, ok) \/ RDrainStep(t, ok) \/ RCreateAnswerDone(t, ok)
  \/ RSetLocalDone(t, ok) \/ RAddIceDone(t, ok)

\* C36: when a suspended handler of a disposed Connection completes or fails
\* after a new Connection of the same peer id was admitted, the new
\* Connection stays in the registry, its engine handle stays open and no
\* dispose message is published
C36_LateFailureHarmless ==
  [][/\ \A t \in sTasks, ok \in BOOLEAN :
          (SSettles(t, ok) /\ OldHandler(t, sConn, sConnections)) =>
            SuccessorUnharmed(t.id, sConn, sConn', sConnections, sConnections')
     /\ \A t \in rTasks, ok \in BOOLEAN :
          (RSettles(t, ok) /\ OldHandler(t, rConn, rConnections)) =>
            SuccessorUnharmed(t.id, rConn, rConn', rConnections, rConnections')]_vars

\* ---- C37: stop() and the handlers in flight
Offers(msgs) == {m \in msgs : m.type = "offer"}

\* C37: from the return of the Sender's stop() to the next start() the
\* registry is empty, no connect timer is armed and no offer is published,
\* whatever the handlers suspended at the time of stop() do afterwards
C37_StopIsFinal ==
  [][(sStarts > 0 /\ ~sActive /\ ~sActive') =>
       /\ \A id \in Ids : sConnections'[id] = 0
       /\ \A k \in DOMAIN sConn' : sConn'[k].timer # "armed"
       /\ Offers(net') \subseteq Offers(net)]_vars

\* ---- C38: the outbound queue after the channel has opened
\* the 'open' listener of the channel has run: the channel is open or has
\* been open
OpenFlushRan(conn) == conn.channel \in {"open", "closed"}

\* C38: once the open-flush of its channel has run, and while it is
\* registered, a Connection has an empty outbound queue
C38_QueueEmptyAfterOpen ==
  \A p \in QPeers :
    (qConnections[p].reg /\ OpenFlushRan(qConnections[p])) =>
      qConnections[p].queue = <<>>

====
